---------------------------- MODULE Spec2Model ----------------------------
(***************************************************************************)
(* A model of NomanAI's remote-execution engine: the SSH connection pool   *)
(* (src/nomanai/ssh_client.py), the policy gate and the tool dispatcher    *)
(* (src/nomanai/tools.py).                                                 *)
(***************************************************************************)
EXTENDS Integers, Sequences, FiniteSets, TLC

(***************************************************************************)
(* Bounds of the model.                                                    *)
(***************************************************************************)
\* max_connections_per_host handed to SSHConnectionPool.__init__
MaxConnectionsPerHost == 2
\* number of get_client calls the threads issue in one behaviour
MaxCalls == 3

Threads == {"t1", "t2", "t3"}
Endpoints == {"root@a:22", "root@b:22"}
Sessions == 1..MaxCalls
NoThread == "none"
NoSession == 0
NoConfig == "no config"

VARIABLES
    pools,               \* SSHConnectionPool._pools: endpoint -> idle list
    keys,                \* the keys of _pools, in insertion order
    active_connections,  \* SSHConnectionPool._active_connections
    locks,               \* SSHConnectionPool._locks: holder of each lock
    transport,           \* per session: "none" | "open" | "closed"
    created,             \* number of sessions _create_connection has made
    calls,               \* number of get_client calls begun
    pc,                  \* per thread: its position in get_client
    cfg,                 \* per thread: the config (endpoint) of its call
    client,              \* per thread: local `conn` / `client`
    outcome,             \* per thread: how its get_connection ended
    raised,              \* per thread: did the with-body raise
    nret,                \* per thread: return_connection calls of this call
    closer               \* the caller of close_all: its position and locals

poolVars == <<pools, keys, active_connections, locks, transport, created, calls,
              pc, cfg, client, outcome, raised, nret, closer>>

\* Last(s) / Front(s) as list.pop() sees them
Last(s) == s[Len(s)]
Front(s) == SubSeq(s, 1, Len(s) - 1)
Range(s) == {s[i] : i \in 1..Len(s)}

\* _is_connection_alive: what the probe of the transport can answer. The
\* peer may have dropped an open session at any moment before the probe; a
\* closed session has no transport
is_connection_alive(s) == IF transport[s] = "open" THEN BOOLEAN ELSE {FALSE}

\* conn.close(): the transport is gone whatever it was
CloseSkipped(tr, s) == tr
close(tr, s) == [tr EXCEPT ![s] = "closed"]

\* line 106: the test that lets get_connection create a session
UnderLimitOffByOne(e) == active_connections[e] <= MaxConnectionsPerHost
UnderLimit(e) == active_connections[e] < MaxConnectionsPerHost

\* `with lock:` can be entered when nobody holds the endpoint's lock
LockIgnored(e) == TRUE
LockFree(e) == locks[e] = NoThread

\* line 95: what is left of the idle list after pop()
PopKeepsEntry(idle) == idle
PopIdle(idle) == Front(idle)

\* line 128: the active count after a release
DecrSkipped(n) == n
Decr(n) == IF n - 1 > 0 THEN n - 1 ELSE 0

\* get_client's finally: where control goes when the with-body is left
ExitSkipsReleaseOnError(r) == IF r THEN "exit" ELSE "finally"
AfterBody(r) == "finally"

\* close_all's frame: pc, the size of _pools when the iteration began, the
\* number of keys taken so far, the index of the inner list iterator
CloserIdle == [pc |-> "idle", size |-> 0, k |-> 0, j |-> 0]

\* defaultdict: reading _pools[pool_key] inserts a missing key
Touch(ks, e) == IF e \in Range(ks) THEN ks ELSE Append(ks, e)

PoolInit ==
    /\ pools = [e \in Endpoints |-> <<>>]
    /\ keys = <<>>
    /\ active_connections = [e \in Endpoints |-> 0]
    /\ locks = [e \in Endpoints |-> NoThread]
    /\ transport = [s \in Sessions |-> "none"]
    /\ created = 0
    /\ calls = 0
    /\ pc = [t \in Threads |-> "idle"]
    /\ cfg = [t \in Threads |-> NoConfig]
    /\ client = [t \in Threads |-> NoSession]
    /\ outcome = [t \in Threads |-> "none"]
    /\ raised = [t \in Threads |-> FALSE]
    /\ nret = [t \in Threads |-> 0]
    /\ closer = CloserIdle

\* get_client lines 289-299 and get_connection lines 85-88: a caller
\* (execute, execute_batch, read_file, write_file, test_connection) enters
\* the context manager for endpoint e and gets the endpoint's lock
get_client_enter(t, e) ==
    /\ pc[t] = "idle"
    /\ calls < MaxCalls
    /\ LockFree(e)
    /\ locks' = [locks EXCEPT ![e] = t]
    /\ calls' = calls + 1
    /\ pc' = [pc EXCEPT ![t] = "reuse"]
    /\ cfg' = [cfg EXCEPT ![t] = e]
    /\ UNCHANGED <<pools, keys, active_connections, transport, created,
                   client, outcome, raised, nret, closer>>

\* get_connection line 94: the test of the reuse loop
get_connection_reuse(t) ==
    LET e == cfg[t] IN
    /\ pc[t] = "reuse"
    /\ keys' = Touch(keys, e)
    /\ pc' = [pc EXCEPT ![t] = IF pools[e] # <<>> THEN "pop" ELSE "check"]
    /\ UNCHANGED <<pools, active_connections, locks, transport, created,
                   calls, cfg, client, outcome, raised, nret, closer>>

\* get_connection lines 95-103: pop the last idle session and probe it.
\* pop() raises IndexError when the list was emptied since the test
get_connection_pop(t) ==
    LET e == cfg[t] IN
    /\ pc[t] = "pop"
    /\ IF pools[e] = <<>>
       THEN /\ outcome' = [outcome EXCEPT ![t] = "index_error"]
            /\ locks' = [locks EXCEPT ![e] = NoThread]
            /\ pc' = [pc EXCEPT ![t] = "exit"]
            /\ UNCHANGED <<pools, active_connections, client, transport>>
       ELSE LET conn == Last(pools[e]) IN
            /\ pools' = [pools EXCEPT ![e] = PopIdle(pools[e])]
            /\ \E alive \in is_connection_alive(conn) :
                IF alive
                THEN /\ active_connections' =
                           [active_connections EXCEPT ![e] = @ + 1]
                     /\ client' = [client EXCEPT ![t] = conn]
                     /\ outcome' = [outcome EXCEPT ![t] = "reused"]
                     /\ locks' = [locks EXCEPT ![e] = NoThread]
                     /\ pc' = [pc EXCEPT ![t] = "body"]
                     /\ UNCHANGED transport
                ELSE /\ transport' = close(transport, conn)
                     /\ pc' = [pc EXCEPT ![t] = "reuse"]
                     /\ UNCHANGED <<active_connections, client, outcome,
                                    locks>>
    /\ UNCHANGED <<keys, created, calls, cfg, raised, nret, closer>>

\* get_connection lines 106 and 113: create if under the limit, else raise
get_connection_check(t) ==
    LET e == cfg[t] IN
    /\ pc[t] = "check"
    /\ IF UnderLimit(e)
       THEN /\ pc' = [pc EXCEPT ![t] = "connect"]
            /\ UNCHANGED <<outcome, locks>>
       ELSE /\ outcome' = [outcome EXCEPT ![t] = "exhausted"]
            /\ locks' = [locks EXCEPT ![e] = NoThread]
            /\ pc' = [pc EXCEPT ![t] = "exit"]
    /\ UNCHANGED <<pools, keys, active_connections, transport, created, calls,
                   cfg, client, raised, nret, closer>>

\* get_connection lines 107-109, _create_connection lines 140-189: the
\* connect succeeds and the fresh session is counted and returned, or it
\* raises
get_connection_connect(t) ==
    LET e == cfg[t] IN
    /\ pc[t] = "connect"
    /\ \E ok \in BOOLEAN :
        IF ok
        THEN /\ created' = created + 1
             /\ transport' = [transport EXCEPT ![created + 1] = "open"]
             /\ client' = [client EXCEPT ![t] = created + 1]
             /\ active_connections' =
                   [active_connections EXCEPT ![e] = @ + 1]
             /\ outcome' = [outcome EXCEPT ![t] = "created"]
             /\ pc' = [pc EXCEPT ![t] = "body"]
        ELSE /\ outcome' = [outcome EXCEPT ![t] = "connect_failed"]
             /\ pc' = [pc EXCEPT ![t] = "exit"]
             /\ UNCHANGED <<created, transport, client, active_connections>>
    /\ locks' = [locks EXCEPT ![e] = NoThread]
    /\ UNCHANGED <<pools, keys, calls, cfg, raised, nret, closer>>

\* the with-body of execute / execute_batch / read_file / write_file /
\* test_connection completes or raises
with_body(t) ==
    /\ pc[t] = "body"
    /\ \E r \in BOOLEAN :
        /\ raised' = [raised EXCEPT ![t] = r]
        /\ pc' = [pc EXCEPT ![t] = AfterBody(r)]
    /\ UNCHANGED <<pools, keys, active_connections, locks, transport, created,
                   calls, cfg, client, outcome, nret, closer>>

\* get_client lines 301-303, return_connection lines 117-127: under the
\* endpoint's lock a live session goes back to the idle list, a dead one
\* is closed
return_connection_put(t) ==
    LET e == cfg[t] IN
    /\ pc[t] = "finally"
    /\ LockFree(e)
    /\ locks' = [locks EXCEPT ![e] = t]
    /\ \E alive \in is_connection_alive(client[t]) :
        IF alive
        THEN /\ pools' = [pools EXCEPT ![e] = Append(@, client[t])]
             /\ UNCHANGED transport
        ELSE /\ transport' = close(transport, client[t])
             /\ UNCHANGED pools
    /\ pc' = [pc EXCEPT ![t] = "decr"]
    /\ UNCHANGED <<keys, active_connections, created, calls, cfg, client,
                   outcome, raised, nret, closer>>

\* return_connection line 128, then the lock is left
return_connection_decr(t) ==
    LET e == cfg[t] IN
    /\ pc[t] = "decr"
    /\ active_connections' = [active_connections EXCEPT ![e] = Decr(@)]
    /\ locks' = [locks EXCEPT ![e] = NoThread]
    /\ nret' = [nret EXCEPT ![t] = @ + 1]
    /\ pc' = [pc EXCEPT ![t] = "exit"]
    /\ UNCHANGED <<pools, keys, transport, created, calls, cfg, client,
                   outcome, raised, closer>>

\* the call returns (or its exception reaches the caller); the frame's
\* locals are gone
get_client_exit(t) ==
    /\ pc[t] = "exit"
    /\ pc' = [pc EXCEPT ![t] = "idle"]
    /\ cfg' = [cfg EXCEPT ![t] = NoConfig]
    /\ client' = [client EXCEPT ![t] = NoSession]
    /\ outcome' = [outcome EXCEPT ![t] = "none"]
    /\ raised' = [raised EXCEPT ![t] = FALSE]
    /\ nret' = [nret EXCEPT ![t] = 0]
    /\ UNCHANGED <<pools, keys, active_connections, locks, transport, created,
                   calls, closer>>

\* the steps of the threads of T
PoolStepOf(T) ==
    \/ \E t \in T, e \in Endpoints : get_client_enter(t, e)
    \/ \E t \in T : get_connection_reuse(t)
    \/ \E t \in T : get_connection_pop(t)
    \/ \E t \in T : get_connection_check(t)
    \/ \E t \in T : get_connection_connect(t)
    \/ \E t \in T : with_body(t)
    \/ \E t \in T : return_connection_put(t)
    \/ \E t \in T : return_connection_decr(t)
    \/ \E t \in T : get_client_exit(t)

PoolStep == PoolStepOf(Threads)

\* the worker threads that run while the main thread shuts the pool down
ShutdownThreads == {"t1", "t2"}

threadVars == <<pc, cfg, client, outcome, raised, nret, calls,
                created, locks>>

\* close_all line 222: the caller starts to iterate over _pools.items()
close_all_begin ==
    /\ closer.pc = "idle"
    /\ closer' = [pc |-> "next", size |-> Len(keys), k |-> 0, j |-> 0]
    /\ UNCHANGED <<pools, keys, active_connections, transport, threadVars>>

\* close_all line 222: the dict iterator yields the next key, ends, or
\* raises RuntimeError because _pools changed size during the iteration
close_all_next ==
    /\ closer.pc = "next"
    /\ closer' =
         IF Len(keys) # closer.size THEN [closer EXCEPT !.pc = "raised"]
         ELSE IF closer.k = closer.size THEN [closer EXCEPT !.pc = "done"]
         ELSE [closer EXCEPT !.pc = "conns", !.k = @ + 1, !.j = 1]
    /\ UNCHANGED <<pools, keys, active_connections, transport, threadVars>>

\* close_all lines 223-227: the list iterator yields the next idle session,
\* which is closed, or ends
close_all_conn ==
    LET e == keys[closer.k] IN
    /\ closer.pc = "conns"
    /\ IF closer.j <= Len(pools[e])
       THEN /\ transport' = close(transport, pools[e][closer.j])
            /\ closer' = [closer EXCEPT !.j = @ + 1]
       ELSE /\ closer' = [closer EXCEPT !.pc = "clear", !.j = 0]
            /\ UNCHANGED transport
    /\ UNCHANGED <<pools, keys, active_connections, threadVars>>

\* close_all line 228
close_all_clear ==
    /\ closer.pc = "clear"
    /\ pools' = [pools EXCEPT ![keys[closer.k]] = <<>>]
    /\ closer' = [closer EXCEPT !.pc = "zero"]
    /\ UNCHANGED <<keys, active_connections, transport, threadVars>>

\* close_all line 229
close_all_zero ==
    /\ closer.pc = "zero"
    /\ active_connections' =
          [active_connections EXCEPT ![keys[closer.k]] = 0]
    /\ closer' = [closer EXCEPT !.pc = "next"]
    /\ UNCHANGED <<pools, keys, transport, threadVars>>

CloseStep ==
    \/ close_all_begin
    \/ close_all_next
    \/ close_all_conn
    \/ close_all_clear
    \/ close_all_zero

(***************************************************************************)
(* The tool layer (src/nomanai/tools.py, src/nomanai/file_ops.py): the     *)
(* policy gate of tool_run_safe, the insecure-value gate of                *)
(* tool_set_config_kv and the dispatcher.  Each call is a pure function of *)
(* its arguments and of the world it meets, so a specification draws the   *)
(* call and the world in its initial state and one action applies the      *)
(* operation.                                                              *)
(***************************************************************************)
\* longest command, counted in words of CmdAtoms
MaxCmdLen == 4
\* largest number of entries of an arguments mapping handed to dispatch_tool
MaxArgs == 3

VARIABLES
    allow_insecure,      \* config.ALLOW_INSECURE
    target_type,         \* "docker" | "ssh": target_type of the current executor
    backend,             \* "up" | "down" | "lost": what a backend call meets
    files,               \* the target's files: path -> file
    trace,               \* the calls that reached docker_exec / the executor
    req,                 \* the call under study
    ret,                 \* what the call gave back to its caller
    normalized_args,     \* dispatch_tool's local of that name
    invoked,             \* the tool functions whose body was entered
    tphase               \* "ready" before the call, "done" after it

toolVars == <<allow_insecure, target_type, backend, files, trace, req, ret,
              normalized_args, invoked, tphase>>

\* ---- text -------------------------------------------------------------
\* A command is a sequence of words; CmdAtoms are the words of the bounded
\* command language: one command of a closed pattern (line 70), one of an
\* open pattern ending in `.*` (line 41), one that no pattern matches, and
\* the two separators.  The words are written to the shell joined by blanks.
CmdAtoms == {"pwd", "systemctl restart ssh", "rm -rf /", "&&", ";"}
Separators == {"&&", ";"}

RECURSIVE SeqsUpTo(_, _)
SeqsUpTo(S, n) ==
    IF n = 0 THEN {<<>>}
    ELSE LET shorter == SeqsUpTo(S, n - 1)
         IN  shorter \cup {Append(s, x) : s \in {q \in shorter : Len(q) = n - 1}, x \in S}

Commands == SeqsUpTo(CmdAtoms, MaxCmdLen)

\* str.split(sep): the pieces between the occurrences of sep, empty pieces kept
RECURSIVE split(_, _)
split(s, sep) ==
    IF s = <<>> THEN << <<>> >>
    ELSE LET rest == split(Tail(s), sep)
         IN  IF Head(s) = sep THEN << <<>> >> \o rest
             ELSE << <<Head(s)>> \o Head(rest) >> \o Tail(rest)

\* cmd_allowed on the command language: `^pwd$` takes "pwd" alone,
\* `^systemctl\s+restart\s+.*$` takes "systemctl restart ssh" and whatever
\* follows it, no pattern takes a text that begins with "rm", "&&" or ";"
cmd_allowed(part) ==
    /\ part # <<>>
    /\ \/ part = <<"pwd">>
       \/ part[1] = "systemctl restart ssh"

\* ---- results ------------------------------------------------------------
\* the mapping a tool returns: ok, the kind of its stderr message and the
\* text the message quotes; "raised" stands for an exception that leaves
\* the function instead of a mapping
Returned(ok, err, about) == [kind |-> "returned", ok |-> ok, err |-> err, about |-> about]
Raised == [kind |-> "raised", ok |-> FALSE, err |-> "exception", about |-> <<>>]
NoResult == [kind |-> "none", ok |-> FALSE, err |-> "", about |-> <<>>]

\* ---- documents and files ----------------------------------------------
\* A text is a sequence of tokens written one after the other: words (runs
\* of \w characters), the blank, the comment marker, the newline and one
\* more character that is neither \w nor \s.  Two words in a row read as
\* one longer word.
NonWord == {" ", "#", "\n", "\r", "*"}
IsWord(t) == t \notin NonWord
IsSpace(t) == t \in {" ", "\n", "\r"}

KeySpellings == {"PermitRootLogin", "permitrootlogin", "PasswordAuthentication", "Port"}
ValueSpellings == {"yes", "Yes", "no"}

\* str.lower() on the spellings in use
lower(s) ==
    CASE s = "PermitRootLogin" -> "permitrootlogin"
      [] s = "PasswordAuthentication" -> "passwordauthentication"
      [] s = "Port" -> "port"
      [] s = "Yes" -> "yes"
      [] OTHER -> s

\* "\n".join(lines)
RECURSIVE join_lines(_)
join_lines(lines) ==
    IF lines = <<>> THEN <<>>
    ELSE IF Len(lines) = 1 THEN lines[1]
    ELSE lines[1] \o <<"\n">> \o join_lines(Tail(lines))

\* str.splitlines(): the pieces between newlines; a final newline opens no
\* further line
splitlines(text) ==
    LET pieces == split(text, "\n")
    IN  IF Last(pieces) = <<>> THEN Front(pieces) ELSE pieces

\* the line `key value` of single-word key and value, the empty line, and
\* the text of the given lines, each ended by a newline or all but the last
ConfLine(key, value) == <<key, " ", value>>
Blank == <<>>
Doc(lines, nl) == join_lines(lines) \o (IF nl THEN <<"\n">> ELSE <<>>)
EmptyDoc == <<>>

\* a file of the target: absent, or present with a text
Absent == [exists |-> FALSE, text |-> EmptyDoc]
FileOf(d) == [exists |-> TRUE, text |-> d]
TextOf(f) == f.text

SshdConfig == "/etc/ssh/sshd_config"
Motd == "/etc/motd"
Paths == {SshdConfig, Motd}

\* a relative path, the same file named from the home directory, the places
\* tool_read_file looks for it, and a path under directories that are not
\* there yet
Notes == "notes.txt"
HomeNotes == "~/notes.txt"
RootNotes == "/root/notes.txt"
SlashNotes == "/notes.txt"
DeepNotes == "/srv/app/conf/notes.txt"
RelativePaths == {Notes}
HomePaths == {HomeNotes}
\* every place of the container's file system; Notes is the file of that
\* name in the working directory of `docker exec`
Locations == Paths \cup {RootNotes, SlashNotes, Notes, DeepNotes}

\* f"/root/{path}" and f"/{path}" of a relative path
under_root(path) == IF path = Notes THEN RootNotes ELSE path
under_slash(path) == IF path = Notes THEN SlashNotes ELSE path
\* path.replace('~/', '/root/', 1)
expand_home(path) == IF path = HomeNotes THEN RootNotes ELSE path

\* \b between the first p tokens of a line and the rest
WordBoundary(line, p) ==
    (p >= 1 /\ IsWord(line[p])) # (p < Len(line) /\ IsWord(line[p + 1]))
BoundarySkipped(line, p) == TRUE
KeyEnd(line, p) == WordBoundary(line, p)

\* pat.match(line) for pat = ^\s*#?\s*KEY\b with re.I (line 47): blanks, an
\* optional comment marker, blanks, the key in any letter case, and a word
\* boundary after it
PatMatches(line, key) ==
    \E a \in 0..Len(line) : \E b \in {a, a + 1} : \E c \in b..Len(line) :
        /\ \A i \in 1..a : IsSpace(line[i])
        /\ b = a + 1 => (b <= Len(line) /\ line[b] = "#")
        /\ \A i \in (b + 1)..c : IsSpace(line[i])
        /\ c + Len(key) <= Len(line)
        /\ \A i \in 1..Len(key) : lower(line[c + i]) = lower(key[i])
        /\ KeyEnd(line, c + Len(key))

EndsWithNewline(text) == text # <<>> /\ Last(text) = "\n"

\* file_ops.set_config_line, on the texts of the document, the key and the
\* value
set_config_line(current, key, value) ==
    LET lines == splitlines(current)
        canon == key \o <<" ">> \o value
        found == \E i \in 1..Len(lines) : PatMatches(lines[i], key)
        repl  == [i \in 1..Len(lines) |->
                    IF PatMatches(lines[i], key) THEN canon ELSE lines[i]]
        out   == IF found THEN repl ELSE Append(repl, canon)
        new   == join_lines(out) \o (IF EndsWithNewline(Last(out)) THEN <<>> ELSE <<"\n">>)
        old   == IF EndsWithNewline(current) \/ current = <<>>
                 THEN current ELSE current \o <<"\n">>
    IN  [new |-> new, changed |-> new # old]

\* file_ops.verify_config_line: re.search(^\s*KEY\s+VALUE\b, content, re.M);
\* the blanks of the pattern may run over newlines, and the letter case
\* counts
verify_config_line(content, key, value) ==
    \E a \in 0..Len(content) : \E b \in a..Len(content) :
      \E c \in (b + Len(key) + 1)..Len(content) :
        /\ a = 0 \/ content[a] = "\n"
        /\ \A i \in (a + 1)..b : IsSpace(content[i])
        /\ SubSeq(content, b + 1, b + Len(key)) = key
        /\ \A i \in (b + Len(key) + 1)..c : IsSpace(content[i])
        /\ c + Len(value) <= Len(content)
        /\ SubSeq(content, c + 1, c + Len(value)) = value
        /\ WordBoundary(content, c + Len(value))

\* ---- set_config_line under study ----------------------------------------
\* longest document, counted in tokens
MaxDocLen == 4

VARIABLES
    line_call            \* a document, a key and a value, and what two
                         \* set_config_line calls in a row returned

confVars == <<line_call>>

\* the tokens of the documents: a key in two letter cases, another word,
\* the blank, the comment marker, the newline, a character that is
\* neither \w nor \s
ConfTokens == {"Port", "port", "yes", " ", "#", "\n", "*"}
Documents == SeqsUpTo(ConfTokens, MaxDocLen)
\* the key in two letter cases, a key that ends in a character that is not
\* \w, and a word that is no key of the documents
ConfKeys == {<<"Port">>, <<"port">>, <<"Port", "*">>, <<"no">>}
\* a word, the empty string, values that hold newlines, and a value that
\* ends in a character that is not \w
ConfValues == {<<"yes">>, <<"no">>, <<>>, <<"yes", "\n">>, <<"yes", "\n", "\n">>, <<"*">>}

NoLineResult == [new |-> <<>>, changed |-> FALSE]
LineCall(phase, current, key, value, first, second) ==
    [phase |-> phase, current |-> current, key |-> key, value |-> value,
     first |-> first, second |-> second, verified |-> FALSE]

\* no set_config_line call is under study
ConfIdle == line_call = LineCall("idle", <<>>, <<>>, <<>>, NoLineResult, NoLineResult)

\* new, changed = set_config_line(current, key, value)
set_config_line_once ==
    /\ line_call.phase = "ready"
    /\ line_call' = [line_call EXCEPT
                        !.phase = "once",
                        !.first = set_config_line(line_call.current, line_call.key,
                                                  line_call.value)]

\* the same call again, on the text the first call returned
set_config_line_twice ==
    /\ line_call.phase = "once"
    /\ line_call' = [line_call EXCEPT
                        !.phase = "twice",
                        !.second = set_config_line(line_call.first.new, line_call.key,
                                                   line_call.value)]

\* verify_config_line, on the document as it is or on the document the
\* first set_config_line call returned
verify_config_line_call ==
    /\ line_call.phase \in {"ready", "once"}
    /\ line_call' =
          IF line_call.phase = "ready"
          THEN [line_call EXCEPT
                  !.phase = "checked",
                  !.verified = verify_config_line(line_call.current, line_call.key,
                                                  line_call.value)]
          ELSE [line_call EXCEPT
                  !.phase = "verified",
                  !.verified = verify_config_line(line_call.first.new, line_call.key,
                                                  line_call.value)]

\* ---- a write and a read under study --------------------------------------
\* longest content written, counted in tokens
MaxContentLen == 2

VARIABLES
    host_files,          \* the file system of the SSH host: place -> file
    trip                 \* a path and a content, and what write_file and
                         \* then read_file returned for them

tripVars == <<host_files, trip>>

\* a character str.encode() refuses (a lone surrogate)
Surrogate == "\\ud800"
ContentTokens == {"yes", "\n", "\r", Surrogate}
Contents == SeqsUpTo(ContentTokens, MaxContentLen)
Encodable(text) == \A i \in 1..Len(text) : text[i] # Surrogate

\* the places of the host's file system: sftp resolves a relative path from
\* the home directory of the login and takes '~' for a directory name
TildeNotes == "/root/~/notes.txt"
HostLocations == Paths \cup {RootNotes, TildeNotes, DeepNotes}
sftp_resolve(path) ==
    IF path = Notes THEN RootNotes ELSE IF path = HomeNotes THEN TildeNotes ELSE path

NoRead == [ret |-> NoResult, content |-> EmptyDoc]
Trip(phase, via, path, content, wrote, got) ==
    [phase |-> phase, via |-> via, path |-> path, content |-> content,
     wrote |-> wrote, got |-> got]

\* no write and read are under study
TripIdle ==
    /\ host_files = [p \in HostLocations |-> Absent]
    /\ trip = Trip("idle", "", "", EmptyDoc, NoResult, NoRead)

\* ---- write_file_atomic under study ---------------------------------------
\* most calls in a row, and the last second of the clock
MaxWrites == 2
MaxClock == 1

VARIABLES
    use_systemd_container, \* the container was started with --tmpfs /tmp
    clock,               \* int(time.time())
    disk,                \* the target, /tmp/.nomanai.tmp and the backups by
                         \* timestamp
    aw                   \* the write_file_atomic call in progress, and whether
                         \* its mv has run

atomVars == <<use_systemd_container, clock, disk, aw>>

Times == 0..MaxClock
Disk(target, tmp, bak) == [target |-> target, tmp |-> tmp, bak |-> bak]
NoBackups == [t \in Times |-> Absent]
AtomicWrite(at, n, content, ts, before) ==
    [pc |-> at, n |-> n, content |-> content, ts |-> ts, before |-> before,
     moved |-> FALSE]

\* no write_file_atomic call is under study
AtomIdle ==
    /\ use_systemd_container = FALSE
    /\ clock = 0
    /\ disk = Disk(Absent, Absent, NoBackups)
    /\ aw = AtomicWrite("idle", 0, EmptyDoc, 0, Disk(Absent, Absent, NoBackups))

\* ---- multi_agent_system under study --------------------------------------
\* largest max_retries
MaxRetries == 3

VARIABLES
    frame,               \* the locals of multi_agent_system, its position
                         \* and what it returned
    agent_calls          \* the agent calls made so far, in order

loopVars == <<frame, agent_calls>>

\* what the three agents hand back: a plan, a transcript, a verdict
Plans == {"plan a", "plan b"}
Transcripts == {"all steps ok", "a step failed"}
NoAnalysis == [conclusion |-> "", failed_steps |-> ""]
\* verifier_agent, lines 430-455: failure_analysis is None on success and
\* holds the conclusion and the failed steps otherwise
Verification(success, conclusion, execution) ==
    [success |-> success, conclusion |-> conclusion,
     failure_analysis |-> IF success THEN NoAnalysis
                          ELSE [conclusion |-> conclusion, failed_steps |-> execution]]
Verifications(execution) ==
    {Verification(TRUE, "goal achieved", execution),
     Verification(FALSE, "file missing", execution),
     Verification(FALSE, "Verification incomplete - max iterations reached", execution)}
NoVerification == Verification(FALSE, "", "")

\* lines 498-503
Attempt(n, plan, execution, verification) ==
    [attempt_number |-> n, plan |-> plan, execution |-> execution,
     verification |-> verification]
NoAttempt == Attempt(0, "", "", NoVerification)

\* lines 511-519 and 532-540
Result(success, attempts, final, plan, execution, verification) ==
    [kind |-> "returned", success |-> success, attempts |-> attempts,
     final_attempt |-> final, plan |-> plan, execution |-> execution,
     verification |-> verification]
NoReturn == [Result(FALSE, <<>>, 0, "", "", NoVerification) EXCEPT !.kind = "none"]
RaisedError == [NoReturn EXCEPT !.kind = "raised"]

Frame(at, max_retries, attempt_num, attempts, previous_attempt, plan, execution,
      verification, result) ==
    [pc |-> at, max_retries |-> max_retries, attempt_num |-> attempt_num,
     attempts |-> attempts, previous_attempt |-> previous_attempt, plan |-> plan,
     execution |-> execution, verification |-> verification, result |-> result]

\* planner_agent, lines 128-147: what the prompt says of the previous
\* attempt
Feedback(previous_attempt) ==
    IF previous_attempt = NoAttempt
        \/ previous_attempt.verification.failure_analysis = NoAnalysis
    THEN [failure |-> NoAnalysis, plan |-> ""]
    ELSE [failure |-> previous_attempt.verification.failure_analysis,
          plan |-> previous_attempt.plan]
AgentCall(agent, n, previous_attempt, out) ==
    [agent |-> agent, attempt_num |-> n, previous_attempt |-> previous_attempt,
     feedback |-> Feedback(previous_attempt), out |-> out]

\* no multi_agent_system call is under study
LoopIdle ==
    /\ frame = Frame("idle", 0, 0, <<>>, NoAttempt, "", "", NoVerification, NoReturn)
    /\ agent_calls = <<>>

\* ---- execute_multi_host under study --------------------------------------
\* longest list of configs handed to execute_multi_host
MaxHosts == 3

VARIABLES
    fan                  \* one execute_multi_host call: its configs, its
                         \* futures, its results dict

fanVars == <<fan>>

SSHConfig(host, port) == [host |-> host, port |-> port]
\* the endpoints of the input space: two on one host, as in
\* test_multi_machine.py, and one on another host
Configs == {SSHConfig("localhost", 2222), SSHConfig("localhost", 2223), SSHConfig("web1", 22)}

\* what self.execute raises: _create_connection's SSHException, the pool's
\* exhausted error, an error of the transport during exec_command
Errors == {"Failed to connect", "Connection pool exhausted", "Timeout"}
\* what self.execute returns: the output of the command on that endpoint,
\* written as the words that tell the endpoints apart
Completed(config) == [rc |-> 0, stdout |-> <<config.host, config.port>>, stderr |-> ""]
\* (1, "", str(e))
ErrorEntry(e) == [rc |-> 1, stdout |-> <<>>, stderr |-> e]

Pending == [done |-> FALSE]
Fan(phase, configs, futures, collected, results) ==
    [phase |-> phase, configs |-> configs, futures |-> futures, collected |-> collected,
     results |-> results]

\* no execute_multi_host call is under study
FanIdle == fan = Fan("idle", <<>>, <<>>, {}, <<>>)

\* ---- the agents under study ----------------------------------------------
VARIABLES
    agent                \* one call of planner_agent, executor_agent or
                         \* verifier_agent: its locals and what it returned

agentVars == <<agent>>

\* no agent call is under study
AgentIdle == agent = [fn |-> "none"]

\* ---- the backend --------------------------------------------------------
\* one call that reached a backend
Call(via, op, path, cmd, d) ==
    [via |-> via, op |-> op, path |-> path, cmd |-> cmd, text |-> d]
World(f, tr) == [files |-> f, trace |-> tr]

\* the target a backend call acts on: RemoteExecutor.execute goes where
\* target_type says, docker_exec goes to the container
acts_on(call) == IF call.via = "executor" THEN target_type ELSE "docker"

\* docker_exec runs the command only when the container is running
ContainerRuns == backend = "up"

\* subprocess.run(..., text=True) hands the output back with "\r\n" and
\* "\r" turned into "\n"
RECURSIVE universal_newlines(_)
universal_newlines(text) ==
    IF text = <<>> THEN <<>>
    ELSE IF Len(text) >= 2 /\ text[1] = "\r" /\ text[2] = "\n"
         THEN <<"\n">> \o universal_newlines(Tail(Tail(text)))
    ELSE (IF text[1] = "\r" THEN <<"\n">> ELSE <<text[1]>>) \o universal_newlines(Tail(text))

\* file_ops.read_file: `test -f p && cat p || true`; "" on any failure
read_file(w, path) ==
    [w   |-> World(w.files, Append(w.trace, Call("docker_exec", "read", path, <<>>, EmptyDoc))),
     out |-> IF ContainerRuns /\ w.files[path].exists
             THEN universal_newlines(TextOf(w.files[path]))
             ELSE EmptyDoc]

\* file_ops.write_file_atomic: mkdir, backup, write-and-rename; the return
\* codes of the three commands are not looked at
write_file_atomic(w, path, content) ==
    World(IF ContainerRuns THEN [w.files EXCEPT ![path] = FileOf(content)] ELSE w.files,
          w.trace \o << Call("docker_exec", "mkdir", path, <<>>, EmptyDoc),
                        Call("docker_exec", "backup", path, <<>>, EmptyDoc),
                        Call("docker_exec", "write", path, <<>>, content) >>)

\* executor.execute(cmd): the return code, or an exception of the transport
execute(w, op, cmd) ==
    [w  |-> World(w.files, Append(w.trace, Call("executor", op, "", cmd, EmptyDoc))),
     rc |-> IF backend = "up" THEN 0 ELSE 1,
     raises |-> backend = "lost"]

\* ---- the tools ----------------------------------------------------------
\* what a tool call leaves behind: the world, the result and the tool
\* bodies entered
Outcome(w, r, inv) == [w |-> w, ret |-> r, invoked |-> inv]

\* tool_run_safe, lines 168-170: split on '&&', and on ';' only when the
\* command holds no '&&'
cmd_parts(cmd) ==
    IF Len(split(cmd, "&&")) = 1 THEN split(cmd, ";") ELSE split(cmd, "&&")

\* tool_run_safe, lines 173-181
tool_run_safe(w, cmd) ==
    LET parts == cmd_parts(cmd)
        bad   == {i \in 1..Len(parts) : parts[i] # <<>> /\ ~cmd_allowed(parts[i])}
        first == CHOOSE i \in bad : \A j \in bad : i <= j
        e     == execute(w, "run", cmd)
    IN  IF bad # {}
        THEN Outcome(w, Returned(FALSE, "command not allowed by policy", parts[first]), <<>>)
        ELSE Outcome(e.w, IF e.raises THEN Raised ELSE Returned(e.rc = 0, "", <<>>), <<>>)

\* tool_set_config_kv, lines 420-421: the call that is refused
GateOpen(path, key, value) == FALSE
InsecureGate(path, key, value) ==
    /\ ~allow_insecure
    /\ path = SshdConfig
    /\ key \in {"PermitRootLogin", "PasswordAuthentication"}
    /\ lower(value) = "yes"

\* tool_set_config_kv, lines 417-426
tool_set_config_kv(w, path, key, value) ==
    LET r   == read_file(w, path)
        new == set_config_line(r.out, <<key>>, <<value>>).new
    IN  IF InsecureGate(path, key, value)
        THEN Outcome(w, Returned(FALSE, "blocked by policy", <<>>), <<>>)
        ELSE Outcome(write_file_atomic(r.w, path, new), Returned(TRUE, "", <<>>), <<>>)

\* what tool_read_file leaves behind: an outcome, and the "content" of the
\* result
ReadOutcome(w, r, d) == [w |-> w, ret |-> r, invoked |-> <<>>, content |-> d]
FileRead(r) == ReadOutcome(r.w, Returned(TRUE, "", <<>>), r.out)

\* tool_read_file, lines 113-145: a relative path is looked for under /root/,
\* under / and in the working directory, and the first content that is not
\* empty is the result
tool_read_file(w, path) ==
    LET r1 == read_file(w, under_root(path))
        r2 == read_file(r1.w, under_slash(path))
        r3 == read_file(r2.w, path)
    IN  IF path \in HomePaths THEN FileRead(read_file(w, expand_home(path)))
        ELSE IF path \notin RelativePaths THEN FileRead(read_file(w, path))
        ELSE IF r1.out # EmptyDoc THEN FileRead(r1)
        ELSE IF r2.out # EmptyDoc THEN FileRead(r2)
        ELSE IF r3.out # EmptyDoc THEN FileRead(r3)
        ELSE ReadOutcome(r3.w, Returned(FALSE, "File not found", <<>>), EmptyDoc)

\* tool_write_file, lines 148-162: a relative path is written under /root/
tool_write_file(w, path, content) ==
    LET target == IF path \in HomePaths THEN expand_home(path)
                  ELSE IF path \in RelativePaths THEN under_root(path)
                  ELSE path
    IN  IF Encodable(content)
        THEN Outcome(write_file_atomic(w, target, content), Returned(TRUE, "", <<>>), <<>>)
        ELSE Outcome(w, Returned(FALSE, "Error writing file", <<>>), <<>>)

\* SSHClientManager.write_file, lines 403-421: get_client, then sftp mkdir
\* of the parent (one level, errors ignored), open, write, chmod
ssh_write_file(hf, path, content) ==
    IF backend = "up" /\ path # DeepNotes /\ Encodable(content)
    THEN [files |-> [hf EXCEPT ![sftp_resolve(path)] = FileOf(content)],
          ret |-> Returned(TRUE, "", <<>>)]
    ELSE [files |-> hf, ret |-> Raised]

\* SSHClientManager.read_file, lines 389-401: get_client, then sftp open
\* and read, decoded as UTF-8
ssh_read_file(hf, path) ==
    IF backend = "up" /\ hf[sftp_resolve(path)].exists
    THEN [ret |-> Returned(TRUE, "", <<>>), content |-> TextOf(hf[sftp_resolve(path)])]
    ELSE [ret |-> Raised, content |-> EmptyDoc]

\* re.search(regex, content, re.M) for the two patterns of the input space
RegexMatches(regex, d) ==
    LET pattern == IF regex = "^#Port" THEN <<"#", "Port">> ELSE <<"Port">>
    IN  \E line \in Range(splitlines(d)) :
            /\ Len(line) >= Len(pattern)
            /\ SubSeq(line, 1, Len(pattern)) = pattern

\* tool_verify_regex, lines 410-414
tool_verify_regex(w, path, regex) ==
    LET r == read_file(w, path)
    IN  Outcome(r.w, Returned(RegexMatches(regex, r.out), "", <<>>), <<>>)

\* the service tools ask the executor (has_systemd, line 84); the package,
\* directory and permission tools call docker_exec
ServiceTools == {"restart_service", "check_service_status", "list_services"}
\* tools whose result says ok=True whatever the return code was: lines 322,
\* 333, 349-357 and 399
OkWhateverRc == {"list_packages", "search_packages", "check_service_status", "list_services"}

\* the tools that only run commands: their first backend call and the ok
\* they derive from its return code
tool_commands(w, name) ==
    LET e == IF name \in ServiceTools
             THEN execute(w, name, <<>>)
             ELSE [w  |-> World(w.files, Append(w.trace, Call("docker_exec", name, "", <<>>, EmptyDoc))),
                   rc |-> IF ContainerRuns THEN 0 ELSE 1,
                   raises |-> FALSE]
    IN  Outcome(e.w,
                IF e.raises THEN Raised
                ELSE Returned(name \in OkWhateverRc \/ e.rc = 0, "", <<>>),
                <<>>)

\* ---- dispatch_tool ------------------------------------------------------
\* the required parameters of each tool, in the order the message of
\* lines 585-642 lists them
RequiredSeq(name) ==
    CASE name = "read_file" -> <<"path">>
      [] name = "write_file" -> <<"path", "content">>
      [] name = "run_safe" -> <<"cmd">>
      [] name = "restart_service" -> <<"name">>
      [] name = "verify_regex" -> <<"path", "regex">>
      [] name = "set_config_kv" -> <<"path", "key", "value">>
      [] name = "install_package" -> <<"package">>
      [] name = "remove_package" -> <<"package">>
      [] name = "search_packages" -> <<"query">>
      [] name = "check_service_status" -> <<"name">>
      [] name = "create_directory" -> <<"path">>
      [] name = "change_permissions" -> <<"path", "mode">>
      [] name = "change_ownership" -> <<"path", "user">>
      [] OTHER -> <<>>
Required(name) == Range(RequiredSeq(name))

\* the parameters of each tool function beyond the required ones
Optional(name) ==
    CASE name = "restart_service" -> {"action"}
      [] name \in {"list_packages", "list_services"} -> {"pattern"}
      [] name = "create_directory" -> {"mode"}
      [] name = "change_ownership" -> {"group"}
      [] OTHER -> {}
Params(name) == Required(name) \cup Optional(name)

ToolNames == {"read_file", "write_file", "run_safe", "restart_service", "verify_regex",
              "set_config_kv", "install_package", "remove_package", "update_system",
              "list_packages", "search_packages", "check_service_status",
              "list_services", "create_directory", "change_permissions",
              "change_ownership"}

\* an argument value: a string (its words, written joined by blanks) or a
\* list of one-word strings
Scalar(words) == [list |-> FALSE, words |-> words]
List(words) == [list |-> TRUE, words |-> words]
\* " ".join(pkg_list) when the value is a list, the value itself otherwise
join(v) == Scalar(v.words)

\* normalized_args[to] = normalized_args.pop(from)
pop_into(m, from, to) ==
    [k \in (DOMAIN m \ {from}) \cup {to} |-> IF k = to THEN m[from] ELSE m[k]]
RenameSkipped(m, from, to) == m
Rename(m, from, to) ==
    IF from \in DOMAIN m /\ to \notin DOMAIN m THEN pop_into(m, from, to) ELSE m

\* lines 549-560: the first of package_names, packages that is present
\* becomes package, a list joined by blanks
RenamePackages(m) ==
    LET from == IF "package_names" \in DOMAIN m THEN "package_names" ELSE "packages"
        moved == pop_into(m, from, "package")
    IN  IF from \in DOMAIN m /\ "package" \notin DOMAIN m
        THEN [moved EXCEPT !["package"] = join(@)]
        ELSE m

\* lines 580-583
RenamePackageName(name, m) ==
    IF name = "search_packages" /\ "package_name" \in DOMAIN m /\ "query" \notin DOMAIN m
    THEN Rename(m, "package_name", "query")
    ELSE Rename(m, "package_name", "package")

\* lines 543-583
Normalize(name, m) ==
    LET m1 == Rename(m, "service_name", "name")
        m2 == Rename(m1, "file_path", "path")
        m3 == RenamePackages(m2)
        m4 == Rename(m3, "command", "cmd")
        m5 == Rename(m4, "permissions", "mode")
        m6 == Rename(m5, "regex_pattern", "regex")
    IN  RenamePackageName(name, m6)

\* the text every content argument of the input space carries
ContentText == Doc(<<ConfLine("PermitRootLogin", "yes")>>, TRUE)

\* tool(**normalized_args): the body of the tool that `name` selects
call_tool(w, name, kw) ==
    LET path == kw["path"].words[1]
        o == CASE name = "read_file" -> tool_read_file(w, path)
               [] name = "write_file" -> tool_write_file(w, path, ContentText)
               [] name = "run_safe" -> tool_run_safe(w, kw["cmd"].words)
               [] name = "verify_regex" -> tool_verify_regex(w, path, kw["regex"].words[1])
               [] name = "set_config_kv" ->
                      tool_set_config_kv(w, path, kw["key"].words[1], kw["value"].words[1])
               [] OTHER -> tool_commands(w, name)
    IN  [o EXCEPT !.invoked = <<[tool |-> name, kw |-> kw]>>]

\* what dispatch_tool hands back, with its local normalized_args
Dispatched(o, norm) ==
    [w |-> o.w, ret |-> o.ret, invoked |-> o.invoked, normalized_args |-> norm]

\* the arguments value: a mapping, None, or an empty list
Mapping(m) == [kind |-> "mapping", map |-> m]
NoArgs == <<>>
NoneArgs == [kind |-> "none", map |-> NoArgs]
ListArgs == [kind |-> "list", map |-> NoArgs]

\* lines 540-643, the body of the try block
dispatch_body(w, name, args) ==
    LET norm == Normalize(name, args.map)
        fail(r) == Dispatched(Outcome(w, r, <<>>), norm)
    IN  IF args.kind = "none"
        THEN Dispatched(Outcome(w, Raised, <<>>), NoArgs)        \* None.copy()
        ELSE IF name \notin ToolNames
        THEN fail(Returned(FALSE, "unknown tool", <<name>>))
        ELSE IF ~(Required(name) \subseteq DOMAIN norm)
        THEN fail(Returned(FALSE, "missing required parameter", RequiredSeq(name)))
        ELSE IF args.kind = "list"
        THEN fail(Raised)                                        \* tool(**[])
        ELSE IF ~(DOMAIN norm \subseteq Params(name))
        THEN fail(Raised)                                        \* unexpected keyword
        ELSE Dispatched(call_tool(w, name, norm), norm)

\* lines 538 and 644-645: `except Exception` turns what the body raised
\* into a result
NoCatch(d) == d
Catch(d) ==
    IF d.ret.kind = "raised"
    THEN [d EXCEPT !.ret = Returned(FALSE, "tool execution error", <<>>)]
    ELSE d

dispatch_tool(w, name, args) == Catch(dispatch_body(w, name, args))

\* ---- the calls and the worlds of the input space ------------------------
ArgKeys == {"path", "content", "cmd", "name", "regex", "key", "value", "package",
            "query", "mode", "user",
            "service_name", "file_path", "package_names", "packages", "package_name",
            "command", "permissions", "regex_pattern",
            "verbose"}

\* the value an argument of each name carries; the two package lists come
\* as a list or as a string
ArgValue(k, asList) ==
    CASE k = "path" -> Scalar(<<SshdConfig>>)
      [] k = "file_path" -> Scalar(<<Motd>>)
      [] k = "cmd" -> Scalar(<<"pwd">>)
      [] k = "command" -> Scalar(<<"rm -rf /">>)
      [] k = "key" -> Scalar(<<"PermitRootLogin">>)
      [] k = "value" -> Scalar(<<"yes">>)
      [] k = "regex" -> Scalar(<<"^Port">>)
      [] k = "regex_pattern" -> Scalar(<<"^#Port">>)
      [] k = "package_names" -> [list |-> asList, words |-> <<"git", "make">>]
      [] k = "packages" -> [list |-> asList, words |-> <<"jq">>]
      [] OTHER -> Scalar(<<k>>)

ArgMaps ==
    {[k \in ks |-> ArgValue(k, asList)] :
        ks \in {S \in SUBSET ArgKeys : Cardinality(S) <= MaxArgs}, asList \in BOOLEAN}

Backends == {"up", "down", "lost"}

\* the call under study: op names the entry point, the other fields are
\* its arguments
Request(op, cmd, path, key, value, name, args) ==
    [op |-> op, cmd |-> cmd, path |-> path, key |-> key, value |-> value,
     name |-> name, args |-> args]
NoRequest == Request("none", <<>>, "", "", "", "", NoneArgs)

\* the texts /etc/ssh/sshd_config starts with
InitialTexts ==
    { Doc(<<ConfLine("PermitRootLogin", "no"), ConfLine("Port", "no")>>, TRUE),
      Doc(<<<<"#", "PermitRootLogin", " ", "yes">>, Blank>>, TRUE),
      Doc(<<ConfLine("permitrootlogin", "no")>>, FALSE) }
InitialFiles ==
    {[p \in Locations |-> IF p = SshdConfig THEN f ELSE Absent] :
        f \in {Absent} \cup {FileOf(d) : d \in InitialTexts}}

SomeFiles ==
    [p \in Locations |->
        IF p = SshdConfig
        THEN FileOf(Doc(<<ConfLine("PermitRootLogin", "no"), ConfLine("Port", "no")>>, TRUE))
        ELSE Absent]

\* no tool call is under study
ToolIdle ==
    /\ allow_insecure = FALSE
    /\ target_type = "docker"
    /\ backend = "up"
    /\ files = [p \in Locations |-> Absent]
    /\ trace = <<>>
    /\ req = NoRequest
    /\ ret = NoResult
    /\ normalized_args = NoArgs
    /\ invoked = <<>>
    /\ tphase = "idle"

\* a call of R is about to be made, the target holding one of the files F
ToolReady(R, F) ==
    /\ PoolInit
    /\ allow_insecure \in BOOLEAN
    /\ target_type = "docker"
    /\ backend \in Backends
    /\ files \in F
    /\ trace = <<>>
    /\ req \in R
    /\ ret = NoResult
    /\ normalized_args = NoArgs
    /\ invoked = <<>>
    /\ tphase = "ready"
    /\ ConfIdle
    /\ TripIdle
    /\ AtomIdle
    /\ LoopIdle /\ FanIdle /\ AgentIdle

\* the call returns (or raises): its outcome becomes the state
Done(o, norm) ==
    /\ tphase = "ready"
    /\ files' = o.w.files
    /\ trace' = o.w.trace
    /\ ret' = o.ret
    /\ invoked' = o.invoked
    /\ normalized_args' = norm
    /\ tphase' = "done"
    /\ UNCHANGED <<allow_insecure, target_type, backend, req, poolVars, confVars, tripVars,
                   atomVars, loopVars, fanVars, agentVars>>

run_safe_call ==
    /\ req.op = "run_safe"
    /\ Done(tool_run_safe(World(files, trace), req.cmd), NoArgs)

set_config_kv_call ==
    /\ req.op = "set_config_kv"
    /\ Done(tool_set_config_kv(World(files, trace), req.path, req.key, req.value), NoArgs)

dispatch_tool_call ==
    /\ req.op = "dispatch_tool"
    /\ LET d == dispatch_tool(World(files, trace), req.name, req.args)
       IN  Done(d, d.normalized_args)

RunSafeRequests ==
    {Request("run_safe", c, "", "", "", "", NoneArgs) : c \in Commands}
SetConfigKvRequests ==
    {Request("set_config_kv", <<>>, p, k, v, "", NoneArgs) :
        p \in Paths, k \in KeySpellings, v \in ValueSpellings}
DispatchRequests ==
    {Request("dispatch_tool", <<>>, "", "", "", n, a) :
        n \in ToolNames \cup {"reboot"},
        a \in {NoneArgs, ListArgs} \cup {Mapping(m) : m \in ArgMaps}}

vars == <<poolVars, toolVars, confVars, tripVars, atomVars, loopVars, fanVars, agentVars>>

Init == PoolInit /\ ToolIdle /\ ConfIdle /\ TripIdle /\ AtomIdle /\ LoopIdle /\ FanIdle /\ AgentIdle

\* the pool under get_client calls of the three threads
SpecPool == Init /\ [][PoolStep /\ UNCHANGED <<toolVars, confVars, tripVars, atomVars, loopVars, fanVars, agentVars>>]_vars

\* the pool under get_client calls of two threads and one close_all
SpecShutdown ==
    Init /\ [][(PoolStepOf(ShutdownThreads) \/ CloseStep) /\ UNCHANGED <<toolVars, confVars, tripVars, atomVars, loopVars, fanVars, agentVars>>]_vars

\* one tool_run_safe call, for every command and backend
SpecPolicy == ToolReady(RunSafeRequests, {SomeFiles}) /\ [][run_safe_call]_vars

\* one tool_set_config_kv call, for every path, key, value, flag and file
SpecConfigKv == ToolReady(SetConfigKvRequests, InitialFiles) /\ [][set_config_kv_call]_vars

\* one dispatch_tool call, for every name and arguments value
SpecDispatch == ToolReady(DispatchRequests, {SomeFiles}) /\ [][dispatch_tool_call]_vars

\* every tool with the arguments it requires and no other
ExecutorRequests ==
    {Request("dispatch_tool", <<>>, "", "", "", n,
             Mapping([k \in Required(n) |-> ArgValue(k, FALSE)])) : n \in ToolNames}

\* set_executor(RemoteExecutor(target_type, ...)) was called, and a tool is
\* about to be dispatched
ExecutorReady ==
    /\ PoolInit /\ ConfIdle /\ TripIdle /\ AtomIdle /\ LoopIdle /\ FanIdle /\ AgentIdle
    /\ allow_insecure \in BOOLEAN
    /\ target_type \in {"docker", "ssh"}
    /\ backend \in Backends
    /\ files = SomeFiles
    /\ trace = <<>> /\ req \in ExecutorRequests /\ ret = NoResult
    /\ normalized_args = NoArgs /\ invoked = <<>> /\ tphase = "ready"

\* one dispatch_tool call, for every tool, executor and backend
SpecExecutor == ExecutorReady /\ [][dispatch_tool_call]_vars

\* a document, a key and a value are about to be handed to set_config_line
ConfReady ==
    /\ PoolInit /\ ToolIdle /\ TripIdle /\ AtomIdle /\ LoopIdle /\ FanIdle /\ AgentIdle
    /\ line_call \in {LineCall("ready", d, k, v, NoLineResult, NoLineResult) :
                        d \in Documents, k \in ConfKeys, v \in ConfValues}

\* set_config_line twice in a row, or verify_config_line before or after
\* it, for every document, key and value
SpecConfigLine ==
    ConfReady /\ [][(set_config_line_once \/ set_config_line_twice
                      \/ verify_config_line_call)
                     /\ UNCHANGED <<poolVars, toolVars, tripVars, atomVars, loopVars, fanVars, agentVars>>]_vars

\* tool_write_file or SSHClientManager.write_file is called
write_file_call ==
    /\ trip.phase = "ready"
    /\ IF trip.via = "tools"
       THEN LET o == tool_write_file(World(files, trace), trip.path, trip.content)
            IN  /\ files' = o.w.files
                /\ trace' = o.w.trace
                /\ trip' = [trip EXCEPT !.phase = "written", !.wrote = o.ret]
                /\ UNCHANGED host_files
       ELSE LET o == ssh_write_file(host_files, trip.path, trip.content)
            IN  /\ host_files' = o.files
                /\ trip' = [trip EXCEPT !.phase = "written", !.wrote = o.ret]
                /\ UNCHANGED <<files, trace>>
    /\ UNCHANGED <<allow_insecure, target_type, backend, req, ret, normalized_args, invoked,
                   tphase, poolVars, confVars, atomVars, loopVars, fanVars, agentVars>>

\* then tool_read_file or SSHClientManager.read_file, on the same path
read_file_call ==
    /\ trip.phase = "written"
    /\ IF trip.via = "tools"
       THEN LET o == tool_read_file(World(files, trace), trip.path)
            IN  /\ trace' = o.w.trace
                /\ trip' = [trip EXCEPT !.phase = "read",
                                        !.got = [ret |-> o.ret, content |-> o.content]]
       ELSE /\ trip' = [trip EXCEPT !.phase = "read",
                                    !.got = ssh_read_file(host_files, trip.path)]
            /\ UNCHANGED trace
    /\ UNCHANGED <<allow_insecure, target_type, backend, files, req, ret, normalized_args,
                   invoked, tphase, host_files, poolVars, confVars, atomVars, loopVars, fanVars, agentVars>>

\* the files the container starts with: none, or one under / that bears the
\* relative name
TripFiles ==
    {[p \in Locations |-> Absent],
     [p \in Locations |-> IF p = SlashNotes THEN FileOf(<<"no">>) ELSE Absent]}
TripPaths == {Motd, Notes, HomeNotes, DeepNotes}

\* a content is about to be written to a path and read back
TripReady ==
    /\ PoolInit /\ ConfIdle /\ AtomIdle /\ LoopIdle /\ FanIdle /\ AgentIdle
    /\ allow_insecure = FALSE
    /\ target_type = "docker"
    /\ backend \in Backends
    /\ files \in TripFiles
    /\ trace = <<>> /\ req = NoRequest /\ ret = NoResult
    /\ normalized_args = NoArgs /\ invoked = <<>> /\ tphase = "idle"
    /\ host_files = [p \in HostLocations |-> Absent]
    /\ trip \in {Trip("ready", via, p, c, NoResult, NoRead) :
                    via \in {"tools", "ssh"}, p \in TripPaths, c \in Contents}

\* write_file then read_file, for every path form, content and backend
SpecRoundTrip == TripReady /\ [][write_file_call \/ read_file_call]_vars

\* ---- write_file_atomic, one command at a time ---------------------------
\* the contents written, and the files the target starts as
WrittenTexts == {<<"yes">>, <<"no", "\n">>}
TargetFiles == {Absent, FileOf(<<"old">>)}

\* what the calls of a step leave alone
AtomFrame ==
    UNCHANGED <<allow_insecure, target_type, files, trace, req, ret, normalized_args,
                invoked, tphase, poolVars, confVars, tripVars, loopVars, fanVars, agentVars>>

\* lines 24-27: the call is entered, the time is taken, `mkdir -p` runs
write_file_atomic_mkdir ==
    /\ aw.pc \in {"ready", "done"}
    /\ aw.n < MaxWrites
    /\ \E content \in WrittenTexts :
          aw' = AtomicWrite("backup", aw.n + 1, content, clock, disk)
    /\ UNCHANGED <<use_systemd_container, clock, disk, backend>>
    /\ AtomFrame

\* what `cp path path.bak.ts` stores
BackupOfNew(target, content) == FileOf(content)
BackupOf(target, content) == target

\* line 28: `test -f path && cp path path.bak.{ts} || true`
write_file_atomic_backup ==
    /\ aw.pc = "backup"
    /\ aw' = [aw EXCEPT !.pc = "decode"]
    /\ disk' = IF ContainerRuns /\ disk.target.exists
               THEN [disk EXCEPT !.bak[aw.ts] = BackupOf(disk.target, aw.content)]
               ELSE disk
    /\ UNCHANGED <<use_systemd_container, clock, backend>>
    /\ AtomFrame

\* line 29, first half: `echo b64 | base64 -d > /tmp/.nomanai.tmp`
write_file_atomic_decode ==
    /\ aw.pc = "decode"
    /\ IF ContainerRuns
       THEN /\ disk' = [disk EXCEPT !.tmp = FileOf(aw.content)]
            /\ aw' = [aw EXCEPT !.pc = "mv"]
       ELSE /\ aw' = [aw EXCEPT !.pc = "done"]
            /\ UNCHANGED disk
    /\ UNCHANGED <<use_systemd_container, clock, backend>>
    /\ AtomFrame

\* docker_utils lines 79 and 85: /tmp is a tmpfs of its own in the systemd
\* container and a directory of the root file system otherwise
SameFilesystem == ~use_systemd_container

\* line 29, second half: `mv /tmp/.nomanai.tmp path` within one file
\* system is a rename
mv_rename ==
    /\ aw.pc = "mv"
    /\ IF ~ContainerRuns
       THEN /\ aw' = [aw EXCEPT !.pc = "done"]
            /\ UNCHANGED disk
       ELSE /\ SameFilesystem
            /\ disk' = [disk EXCEPT !.target = disk.tmp, !.tmp = Absent]
            /\ aw' = [aw EXCEPT !.pc = "done", !.moved = TRUE]
    /\ UNCHANGED <<use_systemd_container, clock, backend>>
    /\ AtomFrame

\* across file systems mv removes the target first
mv_unlink ==
    /\ aw.pc = "mv"
    /\ ContainerRuns /\ ~SameFilesystem
    /\ disk' = [disk EXCEPT !.target = Absent]
    /\ aw' = [aw EXCEPT !.pc = "copy"]
    /\ UNCHANGED <<use_systemd_container, clock, backend>>
    /\ AtomFrame

\* then creates it and copies the content piece by piece, and removes the
\* temporary file in the end
mv_copy ==
    /\ aw.pc = "copy"
    /\ IF ~ContainerRuns
       THEN /\ aw' = [aw EXCEPT !.pc = "done"]
            /\ UNCHANGED disk
       ELSE LET had  == IF disk.target.exists THEN Len(disk.target.text) + 1 ELSE 0
                text == SubSeq(disk.tmp.text, 1, had)
            IN  IF had < Len(disk.tmp.text)
                THEN /\ disk' = [disk EXCEPT !.target = FileOf(text)]
                     /\ UNCHANGED aw
                ELSE /\ disk' = [disk EXCEPT !.target = FileOf(text), !.tmp = Absent]
                     /\ aw' = [aw EXCEPT !.pc = "done", !.moved = TRUE]
    /\ UNCHANGED <<use_systemd_container, clock, backend>>
    /\ AtomFrame

\* the container stops while a call is in progress
container_stops ==
    /\ aw.pc \in {"backup", "decode", "mv", "copy"}
    /\ backend = "up"
    /\ backend' = "down"
    /\ UNCHANGED <<atomVars>>
    /\ AtomFrame

\* a second passes
tick ==
    /\ aw.pc # "idle"
    /\ clock < MaxClock
    /\ clock' = clock + 1
    /\ UNCHANGED <<use_systemd_container, disk, aw, backend>>
    /\ AtomFrame

\* write_file_atomic is about to be called, in either container
AtomReady ==
    /\ PoolInit /\ ToolIdle /\ ConfIdle /\ TripIdle /\ LoopIdle /\ FanIdle /\ AgentIdle
    /\ use_systemd_container \in BOOLEAN
    /\ clock = 0
    /\ disk \in {Disk(f, Absent, NoBackups) : f \in TargetFiles}
    /\ aw = AtomicWrite("ready", 0, EmptyDoc, 0, Disk(Absent, Absent, NoBackups))

\* write_file_atomic calls in a row on one path, a command at a time
SpecAtomicWrite ==
    AtomReady /\ [][write_file_atomic_mkdir \/ write_file_atomic_backup
                     \/ write_file_atomic_decode \/ mv_rename \/ mv_unlink \/ mv_copy
                     \/ container_stops \/ tick]_vars

\* ---- multi_agent_system, one agent call at a time ------------------------
LoopFrame == UNCHANGED <<poolVars, toolVars, confVars, tripVars, atomVars, fanVars, agentVars>>

\* line 475: range(1, max_retries + 1) holds a number after attempt_num
OneMore(attempt_num, max_retries) == attempt_num < max_retries + 1
InRange(attempt_num, max_retries) == attempt_num < max_retries

\* line 475: the loop goes on to its next attempt
attempt_begins ==
    /\ frame.pc = "loop"
    /\ InRange(frame.attempt_num, frame.max_retries)
    /\ frame' = [frame EXCEPT !.pc = "plan", !.attempt_num = @ + 1]
    /\ UNCHANGED agent_calls
    /\ LoopFrame

\* line 485: plan = planner_agent(goal, previous_attempt=previous_attempt)
planner_agent_call ==
    /\ frame.pc = "plan"
    /\ \E plan \in Plans :
          /\ frame' = [frame EXCEPT !.pc = "execute", !.plan = plan]
          /\ agent_calls' = Append(agent_calls,
                AgentCall("PLAN", frame.attempt_num, frame.previous_attempt, plan))
    /\ LoopFrame

\* line 489: execution = executor_agent(plan)
executor_agent_call ==
    /\ frame.pc = "execute"
    /\ \E execution \in Transcripts :
          /\ frame' = [frame EXCEPT !.pc = "verify", !.execution = execution]
          /\ agent_calls' = Append(agent_calls,
                AgentCall("EXECUTE", frame.attempt_num, NoAttempt, execution))
    /\ LoopFrame

\* lines 493-494: verification = verifier_agent(goal, execution)
verifier_agent_call ==
    /\ frame.pc = "verify"
    /\ \E verification \in Verifications(frame.execution) :
          /\ frame' = [frame EXCEPT !.pc = "store", !.verification = verification]
          /\ agent_calls' = Append(agent_calls,
                AgentCall("VERIFY", frame.attempt_num, NoAttempt, verification.success))
    /\ LoopFrame

\* the call of an agent raises (the model endpoint fails): nothing catches
\* it
agent_raises ==
    /\ frame.pc \in {"plan", "execute", "verify"}
    /\ frame' = [frame EXCEPT !.pc = "raised", !.result = RaisedError]
    /\ UNCHANGED agent_calls
    /\ LoopFrame

\* lines 494 and 507: the attempt counts as a success
NeverSucceeded(verification) == FALSE
Succeeded(verification) == verification.success
\* line 504: attempts.append(attempt)
StoreLastOnly(attempts, attempt) == <<attempt>>
StoreAttempt(attempts, attempt) == Append(attempts, attempt)
\* lines 522-524: previous_attempt = attempt, while retries are left
KeepPrevious(previous_attempt, attempt) == previous_attempt
NextPrevious(previous_attempt, attempt) == attempt

\* lines 498-526: the attempt is stored; on success the result is
\* returned, otherwise the attempt becomes the previous one
attempt_recorded ==
    /\ frame.pc = "store"
    /\ LET attempt == Attempt(frame.attempt_num, frame.plan, frame.execution,
                              frame.verification)
           attempts == StoreAttempt(frame.attempts, attempt)
       IN  frame' =
             IF Succeeded(frame.verification)
             THEN [frame EXCEPT
                     !.pc = "returned", !.attempts = attempts,
                     !.result = Result(TRUE, attempts, frame.attempt_num, frame.plan,
                                       frame.execution, frame.verification)]
             ELSE [frame EXCEPT
                     !.pc = "loop", !.attempts = attempts,
                     !.previous_attempt =
                        IF frame.attempt_num < frame.max_retries
                        THEN NextPrevious(frame.previous_attempt, attempt)
                        ELSE frame.previous_attempt]
    /\ UNCHANGED agent_calls
    /\ LoopFrame

\* lines 528-540: the loop is over; attempts[-1] raises IndexError on an
\* empty list
attempts_exhausted ==
    /\ frame.pc = "loop"
    /\ ~InRange(frame.attempt_num, frame.max_retries)
    /\ frame' =
          IF frame.attempts = <<>>
          THEN [frame EXCEPT !.pc = "raised", !.result = RaisedError]
          ELSE [frame EXCEPT
                  !.pc = "returned",
                  !.result = Result(FALSE, frame.attempts, frame.max_retries,
                                    Last(frame.attempts).plan,
                                    Last(frame.attempts).execution,
                                    Last(frame.attempts).verification)]
    /\ UNCHANGED agent_calls
    /\ LoopFrame

\* multi_agent_system is called, with some max_retries
LoopReady ==
    /\ PoolInit /\ ToolIdle /\ ConfIdle /\ TripIdle /\ AtomIdle /\ FanIdle /\ AgentIdle
    /\ frame \in {Frame("loop", m, 0, <<>>, NoAttempt, "", "", NoVerification, NoReturn) :
                     m \in 0..MaxRetries}
    /\ agent_calls = <<>>

\* one multi_agent_system call, for every max_retries and every outcome of
\* the agents
SpecRetry ==
    LoopReady /\ [][attempt_begins \/ planner_agent_call \/ executor_agent_call
                     \/ verifier_agent_call \/ agent_raises \/ attempt_recorded
                     \/ attempts_exhausted]_vars

\* ---- execute_multi_host, one future at a time ---------------------------
FanFrame == UNCHANGED <<poolVars, toolVars, confVars, tripVars, atomVars, loopVars, agentVars>>

\* lines 364 and 377-381: ThreadPoolExecutor(max_workers=min(len(configs), 20))
\* refuses max_workers = 0 with a ValueError; otherwise one future per config
execute_multi_host_begin ==
    /\ fan.phase = "ready"
    /\ fan' = IF fan.configs = <<>>
              THEN [fan EXCEPT !.phase = "raised"]
              ELSE [fan EXCEPT !.phase = "running",
                               !.futures = [i \in DOMAIN fan.configs |-> Pending]]
    /\ FanFrame

\* lines 366-371, in a worker thread: self.execute returns its result or
\* raises, and what it raises becomes (1, "", str(e))
execute_for_host ==
    /\ fan.phase = "running"
    /\ \E i \in DOMAIN fan.configs : \E how \in {"completed"} \cup Errors :
         /\ ~fan.futures[i].done
         /\ fan' = [fan EXCEPT !.futures[i] =
                       [done |-> TRUE, host |-> fan.configs[i].host, how |-> how,
                        result |-> IF how \in Errors THEN ErrorEntry(how)
                                   ELSE Completed(fan.configs[i])]]
    /\ FanFrame

\* lines 383-385: the futures are taken in the order they complete, and
\* results[host] = result
as_completed ==
    /\ fan.phase = "running"
    /\ \E i \in DOMAIN fan.configs \ fan.collected :
         /\ fan.futures[i].done
         /\ fan' = [fan EXCEPT !.collected = @ \cup {i},
                               !.results = (fan.futures[i].host :> fan.futures[i].result) @@ @]
    /\ FanFrame

\* line 387
execute_multi_host_return ==
    /\ fan.phase = "running"
    /\ fan.collected = DOMAIN fan.configs
    /\ fan' = [fan EXCEPT !.phase = "returned"]
    /\ FanFrame

\* execute_multi_host is called with some list of configs
FanReady ==
    /\ PoolInit /\ ToolIdle /\ ConfIdle /\ TripIdle /\ AtomIdle /\ LoopIdle /\ AgentIdle
    /\ fan \in {Fan("ready", cs, <<>>, {}, <<>>) : cs \in SeqsUpTo(Configs, MaxHosts)}

\* one execute_multi_host call, for every list of configs, every outcome of
\* each host and every order of completion
SpecMultiHost ==
    FanReady /\ [][execute_multi_host_begin \/ execute_for_host \/ as_completed
                    \/ execute_multi_host_return]_vars

\* ---- verifier_agent, one consultation at a time --------------------------
\* most consultations of the decision-maker in one agent call (max_iters)
MaxIters == 2
\* longest conclusion of the decision-maker, counted in words
MaxWords == 2

\* Here a text is the sequence of its characters, so that `kw in text` is
\* the search for a substring that Python makes.
\* lines 424-425
success_keywords ==
    {<<"s", "u", "c", "c", "e", "s", "s">>,
     <<"a", "c", "h", "i", "e", "v", "e", "d">>,
     <<"v", "e", "r", "i", "f", "i", "e", "d">>,
     <<"c", "o", "m", "p", "l", "e", "t", "e">>,
     <<"c", "o", "r", "r", "e", "c", "t">>,
     <<"p", "a", "s", "s">>}
failure_keywords ==
    {<<"f", "a", "i", "l">>,
     <<"e", "r", "r", "o", "r">>,
     <<"m", "i", "s", "s", "i", "n", "g">>,
     <<"i", "n", "c", "o", "r", "r", "e", "c", "t">>,
     <<"n", "o", "t", " ", "a", "c", "h", "i", "e", "v", "e", "d">>,
     <<"n", "o", "t", " ", "m", "e", "t">>,
     <<"n", "o", "t", " ", "c", "r", "e", "a", "t", "e", "d">>,
     <<"n", "o", "t", " ", "g", "e", "n", "e", "r", "a", "t", "e", "d">>,
     <<"e", "m", "p", "t", "y">>,
     <<"n", "o", " ", "c", "o", "n", "t", "e", "n", "t">>}

\* kw in text
Contains(text, kw) ==
    \E i \in 0..(Len(text) - Len(kw)) : SubSeq(text, i + 1, i + Len(kw)) = kw

\* str.lower() on the letters the texts are written with
lower_char(c) ==
    CASE c = "A" -> "a"
      [] c = "D" -> "d"
      [] c = "E" -> "e"
      [] c = "F" -> "f"
      [] c = "I" -> "i"
      [] c = "L" -> "l"
      [] c = "V" -> "v"
      [] OTHER -> c
str_lower(text) == [i \in DOMAIN text |-> lower_char(text[i])]

\* the words a conclusion of the input space is written with
ConclusionWords ==
    {<<"V", "e", "r", "i", "f", "i", "e", "d">>,
     <<"a", "c", "h", "i", "e", "v", "e", "d">>,
     <<"n", "o", "t">>,
     <<"i", "n", "c", "o", "r", "r", "e", "c", "t">>,
     <<"p", "a", "s", "s", "w", "o", "r", "d">>,
     <<"F", "A", "I", "L", "E", "D">>,
     <<"d", "o", "n", "e">>}
RECURSIVE Sentence(_)
Sentence(ws) ==
    IF ws = <<>> THEN <<>>
    ELSE IF Len(ws) = 1 THEN ws[1]
    ELSE ws[1] \o <<" ">> \o Sentence(Tail(ws))

\* msg.content: None, or a text (the empty one included)
NoContent == [none |-> TRUE, text |-> <<>>]
Content(text) == [none |-> FALSE, text |-> text]
MessageContents ==
    {NoContent} \cup {Content(Sentence(ws)) : ws \in SeqsUpTo(ConclusionWords, MaxWords)}

\* line 422 and lines 447, 451
VerificationIncomplete == <<"V", "e", "r", "i", "f", "i", "c", "a", "t", "i", "o", "n", " ", "i", "n", "c", "o", "m", "p", "l", "e", "t", "e">>
MaxIterationsReached ==
    <<"V", "e", "r", "i", "f", "i", "c", "a", "t", "i", "o", "n", " ", "i", "n", "c", "o", "m", "p", "l", "e", "t", "e", " ", "-", " ", "m", "a", "x", " ", "i", "t", "e", "r", "a", "t", "i", "o", "n", "s", " ", "r", "e", "a", "c", "h", "e", "d">>

\* an entry of the execution transcript: a dispatched step with the ok of
\* its result, or the closing text
Step(name, ok) == [kind |-> "step", step |-> name, ok |-> ok]
Final == [kind |-> "final", step |-> "", ok |-> FALSE]
ExecutionTranscripts ==
    {<<>>, <<Step("write_file", TRUE), Final>>, <<Step("run_safe", FALSE), Step("read_file", TRUE)>>}

\* lines 336-372: the steps of the transcript whose result is not ok
failed_steps_of(execution_transcript) ==
    SelectSeq(execution_transcript, LAMBDA e : e.kind = "step" /\ ~e.ok)

\* lines 311-332: the tools offered to the decision-maker
verify_tools == {"read_file", "run_safe", "verify_regex", "check_service_status",
                 "list_services", "list_packages"}

\* the tool calls a verification response of the input space asks for: the
\* name and the arguments the tool requires
ToolCall(name, arguments) == [name |-> name, arguments |-> arguments]
CompleteArgs(name) == Mapping([k \in Required(name) |-> ArgValue(k, FALSE)])
\* tc.function.arguments: a text that is the JSON of a mapping, or a text
\* that json.loads refuses
JsonOf(args) == [parsable |-> TRUE, value |-> args]
NotJson == [parsable |-> FALSE, value |-> Mapping(<<>>)]

\* raising what json.loads raises
loads_or_raise(arguments) ==
    [raised |-> ~arguments.parsable, args |-> arguments.value]
\* lines 265-273 and 407-415: json.loads, and {} when it raises
loads_or_empty(arguments) ==
    [raised |-> FALSE,
     args |-> IF arguments.parsable THEN arguments.value ELSE Mapping(<<>>)]

VerifierToolCalls ==
    {ToolCall(n, JsonOf(CompleteArgs(n))) :
        n \in {"read_file", "run_safe", "verify_regex", "list_packages", "write_file",
               "set_config_kv", "install_package", "reboot"}}

\* failure_analysis: None, or the mapping of lines 433-437 and 450-454
NoFailureAnalysis ==
    [present |-> FALSE, conclusion |-> <<>>, failed_steps |-> <<>>, verification_checks |-> <<>>]
FailureAnalysis(conclusion, failed, checks) ==
    [present |-> TRUE, conclusion |-> conclusion, failed_steps |-> failed,
     verification_checks |-> checks]
Verdict(success, conclusion, checks, failure_analysis) ==
    [success |-> success, conclusion |-> conclusion, checks |-> checks,
     failure_analysis |-> failure_analysis]
NoVerdict == Verdict(FALSE, <<>>, <<>>, NoFailureAnalysis)

Verifier(at, max_iters, iteration, execution_transcript, verification_results, out) ==
    [fn |-> "verifier", at |-> at, max_iters |-> max_iters, iteration |-> iteration,
     execution_transcript |-> execution_transcript,
     verification_results |-> verification_results, ret |-> out]

AgentFrame ==
    UNCHANGED <<poolVars, confVars, tripVars, atomVars, loopVars, fanVars,
                allow_insecure, target_type, backend, req, ret, normalized_args, invoked,
                tphase>>

\* lines 397-420: the response asks for a tool; dispatch_tool is called with
\* the name it gives
verifier_tool_call ==
    /\ agent.at = "consult"
    /\ agent.iteration < agent.max_iters
    /\ \E tc \in VerifierToolCalls :
         LET out == dispatch_tool(World(files, trace), tc.name,
                                  loads_or_empty(tc.arguments).args)
         IN  /\ files' = out.w.files
             /\ trace' = out.w.trace
             /\ agent' = [agent EXCEPT
                    !.iteration = @ + 1,
                    !.verification_results =
                        Append(@, [check |-> tc.name, ok |-> out.ret.ok])]
    /\ AgentFrame

\* line 426, ignoring the failure keywords
AnySuccessKeyword(conclusion) ==
    \E kw \in success_keywords : Contains(str_lower(conclusion), kw)
\* lines 426-427
classify(conclusion) ==
    /\ \E kw \in success_keywords : Contains(str_lower(conclusion), kw)
    /\ ~\E kw \in failure_keywords : Contains(str_lower(conclusion), kw)

\* lines 421-444: the response is a text
verifier_concludes ==
    /\ agent.at = "consult"
    /\ agent.iteration < agent.max_iters
    /\ \E content \in MessageContents :
         LET conclusion == IF content.none \/ content.text = <<>>
                           THEN VerificationIncomplete ELSE content.text
             success == classify(conclusion)
             failure_analysis ==
                 IF ~success
                 THEN FailureAnalysis(conclusion, failed_steps_of(agent.execution_transcript),
                                      agent.verification_results)
                 ELSE NoFailureAnalysis
         IN  agent' = [agent EXCEPT
                 !.at = "returned",
                 !.iteration = @ + 1,
                 !.ret = Verdict(success, conclusion, agent.verification_results,
                                 failure_analysis)]
    /\ UNCHANGED <<files, trace>>
    /\ AgentFrame

\* lines 446-455: range(max_iters) ran out
verifier_gives_up ==
    /\ agent.at = "consult"
    /\ agent.iteration = agent.max_iters
    /\ agent' = [agent EXCEPT
           !.at = "gave up",
           !.ret = Verdict(FALSE, MaxIterationsReached, agent.verification_results,
                           FailureAnalysis(MaxIterationsReached,
                                           failed_steps_of(agent.execution_transcript),
                                           agent.verification_results))]
    /\ UNCHANGED <<files, trace>>
    /\ AgentFrame

\* the world an agent runs in: the container is up and holds sshd_config
AgentWorld ==
    /\ PoolInit /\ ConfIdle /\ TripIdle /\ AtomIdle /\ LoopIdle /\ FanIdle
    /\ allow_insecure = FALSE
    /\ target_type = "docker"
    /\ backend = "up"
    /\ files = SomeFiles
    /\ trace = <<>> /\ req = NoRequest /\ ret = NoResult
    /\ normalized_args = NoArgs /\ invoked = <<>> /\ tphase = "idle"

\* verifier_agent is called with some transcript and some max_iters
VerifierReady ==
    /\ AgentWorld
    /\ agent \in {Verifier("consult", m, 0, t, <<>>, NoVerdict) :
                     m \in 0..MaxIters, t \in ExecutionTranscripts}

\* one verifier_agent call, for every response of the decision-maker
SpecVerifier ==
    VerifierReady /\ [][verifier_tool_call \/ verifier_concludes \/ verifier_gives_up]_vars

\* ---- planner_agent, one consultation at a time ---------------------------
\* longest response of the decision-maker to the planner, counted in tokens
MaxPlanTokens == 3

\* A planning response is a sequence of tokens: the brackets and the comma
\* of JSON, a JSON object with the keys of a step, a JSON string, a word
\* that is no JSON, the bullet marker and the newline.
PlanTokens == {"[", "]", ",", "{step}", "\"text\"", "word", "-", "\n"}
PlanContents == SeqsUpTo(PlanTokens, MaxPlanTokens)

\* an element of a plan: a mapping with the keys of a step, or another JSON
\* value; `action` tells where the text of the step came from
PlanStep(action) == [dict |-> TRUE, action |-> action]
NotAStep(kind) == [dict |-> FALSE, action |-> kind]

\* the pieces of a JSON text between the commas outside every bracket
RECURSIVE SplitTop(_, _)
SplitTop(t, depth) ==
    IF t = <<>> THEN << <<>> >>
    ELSE LET h == Head(t)
             rest == SplitTop(Tail(t), IF h = "[" THEN depth + 1
                                       ELSE IF h = "]" THEN depth - 1 ELSE depth)
         IN  IF h = "," /\ depth = 0 THEN << <<>> >> \o rest
             ELSE << <<h>> \o Head(rest) >> \o Tail(rest)

JsonError == [ok |-> FALSE, value |-> NotAStep("error"), items |-> <<>>]
\* json.loads on the tokens (whitespace taken out): the value, or an error
RECURSIVE json_loads(_)
json_loads(t) ==
    IF t = <<"{step}">> THEN [ok |-> TRUE, value |-> PlanStep("json"), items |-> <<>>]
    ELSE IF t = <<"\"text\"">> THEN [ok |-> TRUE, value |-> NotAStep("str"), items |-> <<>>]
    ELSE IF Len(t) >= 2 /\ t[1] = "[" /\ t[Len(t)] = "]"
    THEN LET inner == SubSeq(t, 2, Len(t) - 1)
             parts == SplitTop(inner, 0)
         IN  IF inner = <<>> THEN [ok |-> TRUE, value |-> NotAStep("list"), items |-> <<>>]
             ELSE IF \A i \in DOMAIN parts : json_loads(parts[i]).ok
             THEN [ok |-> TRUE, value |-> NotAStep("list"),
                   items |-> [i \in DOMAIN parts |-> json_loads(parts[i]).value]]
             ELSE JsonError
    ELSE JsonError

\* re.search(r'\[.*\]', content, re.DOTALL): from the first '[' to the last
\* ']' that follows it
json_match(content) ==
    LET opens == {i \in DOMAIN content : content[i] = "["}
        first == CHOOSE i \in opens : \A j \in opens : i <= j
        closes == {j \in DOMAIN content : content[j] = "]" /\ j > first}
        last == CHOOSE j \in closes : \A k \in closes : k <= j
    IN  IF opens = {} \/ closes = {} THEN [found |-> FALSE, group |-> <<>>]
        ELSE [found |-> TRUE, group |-> SubSeq(content, first, last)]

\* lines 194-207: one step for each line that begins with a bullet
text_steps(content) ==
    LET lines == split(content, "\n")
        bullets == SelectSeq(lines, LAMBDA l : l # <<>> /\ l[1] = "-")
    IN  [i \in DOMAIN bullets |-> PlanStep("line")]

\* lines 186-210: plan_steps after the response was read
extract_plan(content) ==
    LET m == json_match(content)
        loaded == json_loads(SelectSeq(m.group, LAMBDA x : x # "\n"))
    IN  IF ~m.found THEN text_steps(content)
        ELSE IF loaded.ok THEN loaded.items
        ELSE << PlanStep("content") >>

\* line 219
or_goal(plan_steps) == IF plan_steps # <<>> THEN plan_steps ELSE << PlanStep("goal") >>

Planner(at, max_iters, iteration, content, plan) ==
    [fn |-> "planner", at |-> at, max_iters |-> max_iters, iteration |-> iteration,
     content |-> content, plan |-> plan]

PlannerToolCalls ==
    {ToolCall("read_file", JsonOf(CompleteArgs("read_file"))),
     ToolCall("read_file", NotJson),
     ToolCall("write_file", JsonOf(CompleteArgs("write_file")))}

\* lines 174-185: the response asks for a tool; read_file alone is run, and
\* what it raises becomes a message
planner_tool_call ==
    /\ agent.fn = "planner" /\ agent.at = "consult"
    /\ agent.iteration < agent.max_iters
    /\ \E tc \in PlannerToolCalls :
         /\ trace' = IF tc.name = "read_file" /\ tc.arguments.parsable
                     THEN tool_read_file(World(files, trace),
                                         tc.arguments.value.map["path"].words[1]).w.trace
                     ELSE trace
         /\ agent' = [agent EXCEPT !.iteration = @ + 1]
    /\ UNCHANGED files
    /\ AgentFrame

\* lines 186-211: the response is a text
planner_answers ==
    /\ agent.fn = "planner" /\ agent.at = "consult"
    /\ agent.iteration < agent.max_iters
    /\ \E content \in PlanContents :
         agent' = [agent EXCEPT !.at = "returned", !.iteration = @ + 1,
                                !.content = content,
                                !.plan = or_goal(extract_plan(content))]
    /\ UNCHANGED <<files, trace>>
    /\ AgentFrame

\* lines 172 and 219: range(max_iters) ran out
planner_gives_up ==
    /\ agent.fn = "planner" /\ agent.at = "consult"
    /\ agent.iteration = agent.max_iters
    /\ agent' = [agent EXCEPT !.at = "returned", !.plan = or_goal(<<>>)]
    /\ UNCHANGED <<files, trace>>
    /\ AgentFrame

\* ---- executor_agent, one consultation at a time --------------------------
\* a message of the conversation
Message(role, what, n) == [role |-> role, what |-> what, n |-> n]
\* lines 295-298: "... Start with STEP {executed_steps + 1}."
Reminder(executed_steps) == Message("user", "Start with STEP", executed_steps + 1)

\* the response that was handled last
NoMessage ==
    [kind |-> "none", name |-> "", parsable |-> TRUE, result |-> NoResult, executed |-> 0,
     asked |-> <<>>]
\* a response with tool calls: the names asked for, in order, and the name,
\* the arguments and the result of the call handled last
ToolMessage(name, parsable, result, executed) ==
    [kind |-> "tool", name |-> name, parsable |-> parsable, result |-> result,
     executed |-> executed, asked |-> <<>>]
TextMessage(executed) == [NoMessage EXCEPT !.kind = "text", !.executed = executed]

\* line 284: transcript.append, and an entry of the transcript
FailuresOnly(transcript, entry) == IF entry.ok THEN transcript ELSE Append(transcript, entry)
Record(transcript, entry) == Append(transcript, entry)
StepEntry(name, parsable, result) ==
    [kind |-> "step", step |-> name, parsable |-> parsable, ok |-> result.ok,
     err |-> result.err]
FinalText(content) ==
    [kind |-> "final", step |-> "", parsable |-> TRUE, ok |-> FALSE, err |-> ""]

Executor(at, max_iters, iteration, plan, transcript, messages, msg) ==
    [fn |-> "executor", at |-> at, max_iters |-> max_iters, iteration |-> iteration,
     plan |-> plan, transcript |-> transcript, messages |-> messages, msg |-> msg]

\* lines 224-255: s.get(...) on every element of the plan raises
\* AttributeError on an element that is no mapping; planner_agent's plan is
\* handed over by multi_agent_system (line 489) with the default max_iters
executor_begins ==
    /\ \/ agent.fn = "planner" /\ agent.at = "returned"
       \/ agent.fn = "executor" /\ agent.at = "called"
    /\ LET max_iters == IF agent.fn = "planner" THEN MaxIters ELSE agent.max_iters
       IN  agent' = Executor(IF \A i \in DOMAIN agent.plan : agent.plan[i].dict
                             THEN "consult" ELSE "raised",
                             max_iters, 0, agent.plan, <<>>,
                             <<Message("system", "", 0), Message("user", "plan", Len(agent.plan))>>,
                             NoMessage)
    /\ UNCHANGED <<files, trace>>
    /\ AgentFrame

\* the tool calls an execution response of the input space asks for
ExecutorToolCalls ==
    {ToolCall("run_safe", JsonOf(CompleteArgs("run_safe"))),
     ToolCall("run_safe", JsonOf(Mapping([k \in {"command"} |-> ArgValue(k, FALSE)]))),
     ToolCall("set_config_kv", JsonOf(CompleteArgs("set_config_kv"))),
     ToolCall("read_file", JsonOf(Mapping(<<>>))),
     ToolCall("write_file", NotJson),
     ToolCall("list_packages", NotJson)}

\* msg.tool_calls of the responses of the input space: one call, or several
\* in one response
ExecutorResponses ==
    {<<tc>> : tc \in ExecutorToolCalls}
    \cup {<<ToolCall("run_safe", JsonOf(CompleteArgs("run_safe"))),
            ToolCall("set_config_kv", JsonOf(CompleteArgs("set_config_kv")))>>,
          <<ToolCall("write_file", NotJson),
            ToolCall("run_safe", JsonOf(CompleteArgs("run_safe"))),
            ToolCall("read_file", JsonOf(Mapping(<<>>)))>>}

\* lines 272-285: the tool calls of one response, each in its turn:
\* json.loads, dispatch_tool, one transcript entry and one tool message
RECURSIVE handle_tool_calls(_, _)
handle_tool_calls(st, tcs) ==
    IF tcs = <<>> \/ st.raised THEN st
    ELSE LET tc == Head(tcs)
             loaded == loads_or_empty(tc.arguments)
             out == dispatch_tool(st.w, tc.name, loaded.args)
         IN  IF loaded.raised \/ out.ret.kind = "raised"
             THEN [st EXCEPT !.raised = TRUE,
                             !.msg = ToolMessage(tc.name, tc.arguments.parsable, NoResult,
                                                 st.msg.executed)]
             ELSE handle_tool_calls(
                      [w |-> out.w,
                       transcript |-> Record(st.transcript,
                                             StepEntry(tc.name, tc.arguments.parsable, out.ret)),
                       messages |-> Append(st.messages, Message("tool", out.ret.err, 0)),
                       msg |-> ToolMessage(tc.name, tc.arguments.parsable, out.ret,
                                           st.msg.executed),
                       raised |-> FALSE],
                      Tail(tcs))

\* lines 257-285: the response asks for tools
executor_tool_call ==
    /\ agent.fn = "executor" /\ agent.at = "consult"
    /\ agent.iteration < agent.max_iters
    /\ \E tcs \in ExecutorResponses :
         LET executed == Len(SelectSeq(agent.transcript, LAMBDA e : e.kind = "step"))
             st == handle_tool_calls(
                       [w |-> World(files, trace),
                        transcript |-> agent.transcript,
                        messages |-> Append(agent.messages,
                                            Message("assistant", "tool_calls", Len(tcs))),
                        msg |-> [NoMessage EXCEPT !.executed = executed],
                        raised |-> FALSE],
                       tcs)
             asked == [i \in DOMAIN tcs |-> tcs[i].name]
         IN  IF st.raised
             THEN /\ agent' = [agent EXCEPT !.at = "raised",
                                            !.msg = [st.msg EXCEPT !.asked = asked]]
                  /\ UNCHANGED <<files, trace>>
             ELSE /\ files' = st.w.files
                  /\ trace' = st.w.trace
                  /\ agent' = [agent EXCEPT
                         !.iteration = @ + 1,
                         !.transcript = st.transcript,
                         !.messages = st.messages,
                         !.msg = [st.msg EXCEPT !.asked = asked]]
    /\ AgentFrame

\* the texts an execution response of the input space carries
ExecutorContents ==
    {NoContent, Content(<<"D", "o", "n", "e">>), Content(<<"A", "l", "l", " ", "s", "e", "t">>), Content(<<"i", "n", "c", "o", "m", "p", "l", "e", "t", "e">>)}

\* line 290
declares_done(content) ==
    \/ Contains(str_lower(content), <<"d", "o", "n", "e">>)
    \/ Contains(str_lower(content), <<"c", "o", "m", "p", "l", "e", "t", "e">>)
    \/ Contains(str_lower(content), <<"f", "i", "n", "i", "s", "h", "e", "d">>)

\* lines 286-301: the response is a text
executor_text ==
    /\ agent.fn = "executor" /\ agent.at = "consult"
    /\ agent.iteration < agent.max_iters
    /\ \E c \in ExecutorContents :
         LET content == IF c.none THEN <<>> ELSE c.text
             executed_steps == Len(SelectSeq(agent.transcript, LAMBDA e : e.kind = "step"))
         IN  IF declares_done(content) /\ executed_steps < Len(agent.plan)
             THEN agent' = [agent EXCEPT
                     !.iteration = @ + 1,
                     !.messages = Append(@, Reminder(executed_steps)),
                     !.msg = TextMessage(executed_steps)]
             ELSE agent' = [agent EXCEPT
                     !.at = "returned",
                     !.iteration = @ + 1,
                     !.transcript = Append(@, FinalText(content)),
                     !.msg = TextMessage(executed_steps)]
    /\ UNCHANGED <<files, trace>>
    /\ AgentFrame

\* lines 251 and 303: range(max_iters) ran out
executor_gives_up ==
    /\ agent.fn = "executor" /\ agent.at = "consult"
    /\ agent.iteration = agent.max_iters
    /\ agent' = [agent EXCEPT !.at = "returned", !.msg = [NoMessage EXCEPT !.kind = "bound"]]
    /\ UNCHANGED <<files, trace>>
    /\ AgentFrame

\* planner_agent is called with some max_iters
PlannerReady ==
    /\ AgentWorld
    /\ agent \in {Planner("consult", m, 0, <<>>, <<>>) : m \in 0..MaxIters}

\* one planner_agent call, for every response of the decision-maker, and the
\* beginning of the executor_agent call that receives its plan
SpecPlanner ==
    PlannerReady /\ [][planner_tool_call \/ planner_answers \/ planner_gives_up
                        \/ executor_begins]_vars

\* the plans handed to executor_agent
ExecutorPlans ==
    {<<>>, <<PlanStep("json")>>, <<PlanStep("json"), PlanStep("json")>>, <<NotAStep("str")>>}

\* executor_agent is called with some plan and some max_iters
ExecutorAgentReady ==
    /\ AgentWorld
    /\ agent \in {Executor("called", m, 0, plan, <<>>, <<>>, NoMessage) :
                     m \in 0..MaxIters, plan \in ExecutorPlans}

\* one executor_agent call, for every response of the decision-maker
SpecExecutorAgent ==
    ExecutorAgentReady /\ [][executor_begins \/ executor_tool_call \/ executor_text
                              \/ executor_gives_up]_vars

\* ---- apply_fixes, once and again -----------------------------------------
\* most lines of the sshd_config a fix is applied to
MaxFixLines == 2

\* fixes.py lines 13-24: the catalog
FIXES ==
    [fid \in {"ssh_disable_root", "ssh_disable_password_auth"} |->
        IF fid = "ssh_disable_root"
        THEN [key |-> "PermitRootLogin", value |-> "no"]
        ELSE [key |-> "PasswordAuthentication", value |-> "no"]]

\* str.splitlines(keepends=True)
keepends(text) ==
    LET ls == splitlines(text)
    IN  [i \in DOMAIN ls |->
            IF i < Len(ls) \/ EndsWithNewline(text) THEN ls[i] \o <<"\n">> ELSE ls[i]]

\* file_ops.unified_diff_str: nothing for equal texts; otherwise the headers,
\* the lines taken out and the lines put in (the context lines and the hunk
\* marks are left out)
RECURSIVE flatten(_)
flatten(ls) == IF ls = <<>> THEN <<>> ELSE ls[1] \o flatten(Tail(ls))
unified_diff_str(old, new) ==
    LET a == keepends(old)
        b == keepends(new)
        out == SelectSeq(a, LAMBDA l : l \notin Range(b))
        put == SelectSeq(b, LAMBDA l : l \notin Range(a))
    IN  IF a = b THEN <<>>
        ELSE <<"---", "+++">> \o flatten([i \in DOMAIN out |-> <<"-">> \o out[i]])
                              \o flatten([i \in DOMAIN put |-> <<"+">> \o put[i]])

\* fixes.py lines 61-64: the fixes one after the other on the content
RECURSIVE apply_each(_, _)
apply_each(st, fix_ids) ==
    IF fix_ids = <<>> THEN st
    ELSE LET fix == FIXES[Head(fix_ids)]
             r == set_config_line(st.content, <<fix.key>>, <<fix.value>>)
         IN  apply_each([content |-> r.new, changed_any |-> st.changed_any \/ r.changed],
                        Tail(fix_ids))

\* `if not changed_any` of line 65
WritesAlways(st) == TRUE
ChangedAny(st) == st.changed_any

\* fixes.apply_fixes, lines 56-70
apply_fixes(w, fix_ids) ==
    LET r == read_file(w, SshdConfig)
        st == apply_each([content |-> r.out, changed_any |-> FALSE], fix_ids)
        written == write_file_atomic(r.w, SshdConfig, st.content)
        reloaded == World(written.files,
                          Append(written.trace,
                                 Call("docker_exec", "reload", "", <<"systemctl", "reload", "ssh">>,
                                      EmptyDoc)))
    IN  IF ~ChangedAny(st)
        THEN Outcome(r.w, Returned(FALSE, "", <<>>), <<>>)
        ELSE Outcome(reloaded, Returned(TRUE, "", unified_diff_str(r.out, st.content)), <<>>)

\* cli.py lines 117-120: `apply` is run, and run again with the same fix ids
apply_fixes_call ==
    /\ req.op = "apply_fixes"
    /\ tphase \in {"ready", "once"}
    /\ LET o == apply_fixes(World(files, trace), req.cmd)
       IN  /\ files' = o.w.files
           /\ trace' = o.w.trace
           /\ ret' = o.ret
    /\ tphase' = IF tphase = "ready" THEN "once" ELSE "twice"
    /\ UNCHANGED <<allow_insecure, target_type, backend, req, normalized_args, invoked,
                   poolVars, confVars, tripVars, atomVars, loopVars, fanVars, agentVars>>

\* the lines of the sshd_config of the input space: the two settings, on
\* and off, a commented one, one in lower case, another setting
FixLines ==
    {ConfLine(FIXES[fid].key, v) : fid \in DOMAIN FIXES, v \in {"yes", "no"}}
    \cup {<<"#", "PermitRootLogin", " ", "yes">>, ConfLine("permitrootlogin", "no"),
          ConfLine("Port", "no")}
FixTexts == {Doc(ls, nl) : ls \in SeqsUpTo(FixLines, MaxFixLines), nl \in BOOLEAN}
\* resolve_fixes, lines 27-37: one id or several, never none
FixIds == SeqsUpTo(DOMAIN FIXES, Cardinality(DOMAIN FIXES)) \ {<<>>}

\* ensure_up has brought the container up (cli.py line 118) and apply_fixes
\* is about to be called
FixReady ==
    /\ PoolInit /\ ConfIdle /\ TripIdle /\ AtomIdle /\ LoopIdle /\ FanIdle /\ AgentIdle
    /\ allow_insecure = FALSE
    /\ target_type = "docker"
    /\ backend = "up"
    /\ files \in {[p \in Locations |-> IF p = SshdConfig THEN f ELSE Absent] :
                     f \in {Absent} \cup {FileOf(d) : d \in FixTexts}}
    /\ trace = <<>>
    /\ req \in {Request("apply_fixes", ids, SshdConfig, "", "", "", NoneArgs) : ids \in FixIds}
    /\ ret = NoResult
    /\ normalized_args = NoArgs
    /\ invoked = <<>>
    /\ tphase = "ready"

\* apply_fixes twice in a row, for every sshd_config and every selection
SpecApplyFixes == FixReady /\ [][apply_fixes_call]_vars

(***************************************************************************)
(* The connection pool: claims C1 to C5.                                   *)
(***************************************************************************)
Idle(e) == Len(pools[e])
Min(a, b) == IF a < b THEN a ELSE b
Card(S) == Cardinality(S)

\* a caller holds its session from the return of get_connection to its
\* call of return_connection
Holds(t) == pc[t] \in {"body", "finally"}
HeldOn(e) == {t \in Threads : Holds(t) /\ cfg[t] = e}

C2_Decision ==
    \A t \in Threads :
        LET e == cfg[t] IN
        /\ (pc[t] = "pop" /\ pc'[t] = "body") =>
              /\ client'[t] = Last(pools[e])
              /\ transport[client'[t]] = "open"
              /\ outcome'[t] = "reused"
        /\ (pc[t] = "check" /\ pc'[t] = "connect") =>
              /\ pools[e] = <<>>
              /\ Idle(e) + active_connections[e] < MaxConnectionsPerHost
        /\ (outcome[t] # "created" /\ outcome'[t] = "created") =>
              /\ pools[e] = <<>>
              /\ Idle(e) + active_connections[e] < MaxConnectionsPerHost
        /\ (outcome[t] # "exhausted" /\ outcome'[t] = "exhausted") =>
              /\ pc[t] = "check"
              /\ pools[e] = <<>>
              /\ active_connections[e] >= MaxConnectionsPerHost
        /\ (pc[t] = "check" /\ pc'[t] # "check"
              /\ ~(Idle(e) + active_connections[e] < MaxConnectionsPerHost)) =>
              outcome'[t] = "exhausted" /\ pc'[t] = "exit"

\* C2, no waiting: a caller at the limit test can always take its step
C2_NoWait == \A t \in Threads : pc[t] = "check" => ENABLED get_connection_check(t)

\* every call begun so far is still running and has released nothing
NoneReleased ==
    /\ calls = Card({t \in Threads : pc[t] # "idle"})
    /\ \A t \in Threads : pc[t] # "decr" /\ nret[t] = 0

\* C2, the scenario: when every thread has called get_connection on the same
\* endpoint, nothing was released and no connect failed, as many callers as
\* the limit allows hold a session and each of the others got the
\* pool-exhausted error
C2_Scenario ==
    \A e \in Endpoints :
        (/\ NoneReleased
         /\ \A t \in Threads : cfg[t] = e /\ pc[t] \in {"body", "finally", "exit"}
         /\ \A t \in Threads : outcome[t] # "connect_failed")
        => /\ Card({t \in Threads : outcome[t] = "created" /\ Holds(t)})
                = Min(Card(Threads), MaxConnectionsPerHost)
           /\ \A t \in Threads : ~Holds(t) => outcome[t] = "exhausted"

\* C2: get_connection reuses, creates under the limit or fails at once
C2_Acquire == [][C2_Decision]_vars /\ [](C2_NoWait /\ C2_Scenario)

\* three acquires on one endpoint, none released: the first two hold a
\* session and the third got the error
C2_Witness ==
    \E e \in Endpoints :
        /\ NoneReleased
        /\ \A t \in Threads : cfg[t] = e
        /\ Card({t \in Threads : outcome[t] = "created" /\ pc[t] = "body"}) = 2
        /\ Card({t \in Threads : outcome[t] = "exhausted" /\ pc[t] = "exit"}) = 1

\* C3: no session is held by two callers, a held session is in no idle
\* list, and no session is twice in the idle lists
C3_OneOwner ==
    /\ \A t1, t2 \in Threads :
          (t1 # t2 /\ Holds(t1) /\ Holds(t2)) => client[t1] # client[t2]
    /\ \A t \in Threads, e \in Endpoints :
          Holds(t) => client[t] \notin Range(pools[e])
    /\ \A e \in Endpoints : Card(Range(pools[e])) = Idle(e)
    /\ \A e1, e2 \in Endpoints :
          e1 # e2 => Range(pools[e1]) \cap Range(pools[e2]) = {}

\* a caller holds a reused session while another caller holds a session of
\* the same endpoint
C3_Witness ==
    \E t1, t2 \in Threads :
        /\ t1 # t2
        /\ cfg[t1] = cfg[t2]
        /\ pc[t1] = "body" /\ outcome[t1] = "reused"
        /\ Holds(t2)

\* C4: a call that got a session has returned it exactly once when it
\* ends, whether its body completed or raised; a call that got none returns
\* none; an endpoint no call is working on has an active count of 0
C4_ReturnedOnce ==
    /\ \A t \in Threads :
          /\ nret[t] <= 1
          /\ pc[t] = "exit" =>
                nret[t] = IF outcome[t] \in {"created", "reused"} THEN 1 ELSE 0
    /\ \A e \in Endpoints :
          (\A t \in Threads : cfg[t] = e => pc[t] = "exit")
              => active_connections[e] = 0

\* a call whose body raised has returned its session and the endpoint's
\* active count is back to 0
C4_Witness ==
    \E t \in Threads :
        /\ pc[t] = "exit" /\ raised[t] /\ nret[t] = 1
        /\ active_connections[cfg[t]] = 0

\* C5: at the return of close_all every idle list is empty, every active
\* count is 0 and no session the pool created is still open
C5_AllClosed ==
    /\ \A e \in Endpoints : pools[e] = <<>> /\ active_connections[e] = 0
    /\ \A s \in Sessions : transport[s] # "open"
C5_CloseAll == [][(closer.pc # "done" /\ closer'.pc = "done") => C5_AllClosed']_vars

(***************************************************************************)
(* The policy gate, the insecure-value gate and the dispatcher.            *)
(***************************************************************************)
\* some call reached executor.execute
Executed == \E i \in 1..Len(trace) : trace[i].via = "executor"
PolicyDenied == ret.kind = "returned" /\ ~ret.ok /\ ret.err = "command not allowed by policy"

\* the pieces of a command between separators of either kind
RECURSIVE split_any(_)
split_any(s) ==
    IF s = <<>> THEN << <<>> >>
    ELSE LET rest == split_any(Tail(s))
         IN  IF Head(s) \in Separators THEN << <<>> >> \o rest
             ELSE << <<Head(s)>> \o Head(rest) >> \o Tail(rest)
Segments(cmd) == Range(split_any(cmd)) \ {<<>>}

\* the command matches the allow-list: as it stands, or segment by segment
MatchesPolicy(cmd) ==
    \/ cmd_allowed(cmd)
    \/ Segments(cmd) # {} /\ \A seg \in Segments(cmd) : cmd_allowed(seg)

\* C6: a command that matches no allow-list pattern, neither as a whole nor
\* segment by segment, is answered ok=false with the policy-denied message
\* and never reaches executor.execute
C6_DeniedUnlessAllowed ==
    (tphase = "done" /\ ~MatchesPolicy(req.cmd)) => (PolicyDenied /\ ~Executed)

\* C7: a command reaches the backend only if every segment between '&&'
\* and ';' separators, in any combination, matches the allow-list; when a
\* segment does not match, the result is a policy denial whose message
\* quotes a piece of the command that does not match, and nothing is
\* executed
C7_EverySegmentChecked ==
    tphase = "done" =>
        LET refused == {seg \in Segments(req.cmd) : ~cmd_allowed(seg)}
        IN  /\ Executed => refused = {}
            /\ refused # {} => (PolicyDenied /\ ret.about # <<>> /\ ~cmd_allowed(ret.about) /\ ~Executed)

\* the call C8 is about
DangerousFlip ==
    /\ req.op = "set_config_kv"
    /\ req.path = SshdConfig
    /\ req.key \in {"PermitRootLogin", "PasswordAuthentication"}
    /\ req.value = "yes"
Blocked == ret.kind = "returned" /\ ~ret.ok /\ ret.err = "blocked by policy"
WroteLine(tr, path, line) ==
    \E i \in 1..Len(tr) :
        /\ tr[i].op = "write" /\ tr[i].path = path
        /\ line \in Range(splitlines(tr[i].text))

\* C8, one call: with the flag unset the call is refused with a result and
\* no backend call is made, the file stays as it was; with the flag set the
\* call reports ok, hands the backend a text with the line `key yes`, and
\* the file holds that line when the container ran the write
C8_Call ==
    (tphase = "ready" /\ tphase' = "done" /\ DangerousFlip) =>
        IF ~allow_insecure
        THEN Blocked' /\ trace' = trace /\ files' = files
        ELSE /\ ret'.kind = "returned" /\ ret'.ok
             /\ WroteLine(trace', req.path, ConfLine(req.key, "yes"))
             /\ ContainerRuns =>
                    /\ files'[req.path].exists
                    /\ ConfLine(req.key, "yes") \in Range(splitlines(files'[req.path].text))

\* C8: the insecure-value gate refuses the dangerous flips exactly when
\* insecure mode is unset
C8_InsecureGate == [][C8_Call]_vars

\* a dangerous flip was refused and the file was never touched
C8_Witness ==
    /\ tphase = "done" /\ DangerousFlip /\ ~allow_insecure
    /\ Blocked /\ trace = <<>> /\ files[SshdConfig].exists

\* C9: whatever the name and the arguments value, dispatch_tool returns a
\* mapping with a boolean ok; nothing it meets is raised to its caller
C9_AlwaysResult ==
    (tphase = "done" /\ req.op = "dispatch_tool") =>
        (ret.kind = "returned" /\ ret.ok \in BOOLEAN)

\* an arguments value that is no mapping was answered with a result
C9_Witness ==
    /\ tphase = "done" /\ req.op = "dispatch_tool"
    /\ req.args = NoneArgs
    /\ ret = Returned(FALSE, "tool execution error", <<>>)

\* the aliases of a canonical parameter name, for the tool `name`
Aliases(name, c) ==
    CASE c = "name" -> {"service_name"}
      [] c = "path" -> {"file_path"}
      [] c = "cmd" -> {"command"}
      [] c = "mode" -> {"permissions"}
      [] c = "regex" -> {"regex_pattern"}
      [] c = "query" -> IF name = "search_packages" THEN {"package_name"} ELSE {}
      [] c = "package" -> {"package_names", "packages"} \cup
                          (IF name = "search_packages" THEN {} ELSE {"package_name"})
      [] OTHER -> {}
Canonical == {"name", "path", "cmd", "mode", "regex", "query", "package"}

\* the value under its canonical name: a list of packages joined by blanks
CanonicalValue(v) == [list |-> FALSE, words |-> v.words]

\* a required parameter the arguments give under no name
Lacking(name, m) ==
    {c \in Required(name) : c \notin DOMAIN m /\ Aliases(name, c) \cap DOMAIN m = {}}

\* C10: for a mapping of arguments, an alias whose canonical name is not
\* given is moved to the canonical name (a package list joined by blanks)
\* before validation; an unknown name is answered 'unknown tool <name>';
\* a known tool lacking a required parameter is answered ok=false with a
\* message that names the parameter, and its body is not entered
C10_Normalises ==
    (tphase = "done" /\ req.op = "dispatch_tool" /\ req.args.kind = "mapping") =>
        LET m == req.args.map
            n == normalized_args
        IN  /\ \A c \in Canonical :
                    (c \notin DOMAIN m /\ Aliases(req.name, c) \cap DOMAIN m # {}) =>
                        /\ c \in DOMAIN n
                        /\ \E a \in Aliases(req.name, c) \cap DOMAIN m :
                                a \notin DOMAIN n /\ n[c] = CanonicalValue(m[a])
            /\ req.name \notin ToolNames =>
                    (ret = Returned(FALSE, "unknown tool", <<req.name>>) /\ invoked = <<>>)
            /\ (req.name \in ToolNames /\ Lacking(req.name, m) # {}) =>
                    /\ ret.kind = "returned" /\ ~ret.ok
                    /\ ret.err = "missing required parameter"
                    /\ Lacking(req.name, m) \subseteq Range(ret.about)
                    /\ invoked = <<>>

\* install_package was given a list under `packages`: its body was entered
\* with the joined string under `package`
C10_Witness ==
    /\ tphase = "done" /\ req.op = "dispatch_tool"
    /\ req.name = "install_package"
    /\ req.args = Mapping([k \in {"packages"} |-> List(<<"jq">>)])
    /\ invoked = <<[tool |-> "install_package",
                    kw |-> [k \in {"package"} |-> Scalar(<<"jq">>)]]>>

(***************************************************************************)
(* set_config_line.                                                        *)
(***************************************************************************)
\* C11: a second set_config_line call with the same key and value, on the
\* document the first call returned, returns changed=false and that same
\* document
C11_Idempotent ==
    line_call.phase = "twice" =>
        (~line_call.second.changed /\ line_call.second.new = line_call.first.new)

\* a line without its leading blanks
RECURSIVE lstrip(_)
lstrip(line) ==
    IF line # <<>> /\ IsSpace(Head(line)) THEN lstrip(Tail(line)) ELSE line
\* a line without leading blanks, one comment marker and the blanks after it
Uncommented(line) ==
    LET a == lstrip(line)
    IN  lstrip(IF a # <<>> /\ Head(a) = "#" THEN Tail(a) ELSE a)
\* the line starts with the key, in any letter case
StartsWithKey(line, key) ==
    LET r == Uncommented(line)
    IN  /\ Len(r) >= Len(key)
        /\ \A i \in 1..Len(key) : lower(r[i]) = lower(key[i])
\* the line starts with the key and the key ends where a word ends or begins
StartsWithWholeKey(line, key) ==
    LET r == Uncommented(line)
        n == Len(key)
    IN  /\ StartsWithKey(line, key)
        /\ (n >= 1 /\ IsWord(r[n])) # (n < Len(r) /\ IsWord(r[n + 1]))

\* the lines the document is to have: each matching line replaced by the
\* canonical line, the canonical line appended iff none matched, the other
\* lines as they were and where they were
Rewritten(lines, key, canon, Match(_, _)) ==
    LET repl == [i \in 1..Len(lines) |-> IF Match(lines[i], key) THEN canon ELSE lines[i]]
    IN  IF \E i \in 1..Len(lines) : Match(lines[i], key) THEN repl ELSE Append(repl, canon)

\* a call whose canonical line is one line
OneLineCall ==
    line_call.phase \in {"once", "twice", "verified"} /\ "\n" \notin Range(line_call.value)
CanonicalLine == line_call.key \o <<" ">> \o line_call.value

\* C12 as stated: the lines that start with the key (after optional blanks
\* and a comment marker, in any letter case) are replaced by the canonical
\* line, which is appended iff there is no such line; the other lines stay
\* unchanged and in order
C12_AsStated ==
    OneLineCall =>
        splitlines(line_call.first.new) =
            Rewritten(splitlines(line_call.current), line_call.key, CanonicalLine, StartsWithKey)

\* C12, amended: the lines replaced are those that start with the key
\* (after optional blanks and a comment marker, in any letter case) with a
\* word boundary after the key; the canonical line is appended iff there
\* is no such line; the other lines stay unchanged and in order
C12_Replaces ==
    OneLineCall =>
        splitlines(line_call.first.new) =
            Rewritten(splitlines(line_call.current), line_call.key, CanonicalLine,
                      StartsWithWholeKey)

\* "#Port\nyes" with key port: the commented line was replaced, the other
\* line kept, nothing appended
C12_Witness ==
    /\ line_call.phase = "once"
    /\ line_call.current = <<"#", "Port", "\n", "yes">>
    /\ line_call.key = <<"port">> /\ line_call.value = <<"no">>
    /\ line_call.first.new = <<"port", " ", "no", "\n", "yes", "\n">>

\* C13: the document set_config_line returns ends with one newline and not
\* with two
C13_OneTrailingNewline ==
    line_call.phase \in {"once", "twice", "verified"} =>
        /\ EndsWithNewline(line_call.first.new)
        /\ ~EndsWithNewline(Front(line_call.first.new))

(***************************************************************************)
(* Files written and read back: claims C14 to C16.                         *)
(***************************************************************************)
\* the write returned and reported no failure
WriteSucceeded == trip.wrote.kind = "returned" /\ trip.wrote.ok

\* C14: write_file(path, content) followed by read_file(path) returns
\* exactly content, for absolute, relative and '~'-prefixed paths and every
\* content, the empty one included, through the tools and through the SSH
\* manager.
C14_RoundTrip ==
    (trip.phase = "read" /\ WriteSucceeded)
        => /\ trip.got.ret = Returned(TRUE, "", <<>>)
           /\ trip.got.content = trip.content

\* a write_file_atomic call has been entered and has not returned
Writing == aw.pc \in {"backup", "decode", "mv", "copy"}

\* C15: at every point of a write_file_atomic call, also when a command of
\* it fails, a reader of the target sees the complete old content or the
\* complete new content.
C15_OldOrNew ==
    (Writing \/ aw.pc = "done")
        => disk.target \in {aw.before.target, FileOf(aw.content)}

\* the call has returned and its last command replaced the target
Replaced == aw.pc = "done" /\ aw.moved

\* C16: a write_file_atomic call on a path whose file exists leaves
\* <path>.bak.<timestamp> holding the content the file had just before the
\* call; a call on a path with no file creates no backup.
C16_BackupHoldsPrevious ==
    /\ (Replaced /\ aw.before.target.exists) => disk.bak[aw.ts] = aw.before.target
    /\ (Replaced /\ ~aw.before.target.exists) => disk.bak = aw.before.bak
C16_Witness ==
    /\ Replaced /\ aw.n = 2
    /\ aw.before.target.exists
    /\ aw.before.target # disk.target
    /\ disk.bak[aw.ts] = aw.before.target

(***************************************************************************)
(* The retry loop: claims C17 to C20.                                      *)
(***************************************************************************)
Phases == <<"PLAN", "EXECUTE", "VERIFY">>
\* the k-th attempt's call of an agent, by its place in the order of calls
CallOf(k, phase) == agent_calls[3 * (k - 1) + phase]
Verified(k) == Len(agent_calls) >= 3 * k
FailedOn(k) == Verified(k) /\ CallOf(k, 3).out = FALSE
SucceededOn(k) == Verified(k) /\ CallOf(k, 3).out = TRUE

\* C17: when verification fails on attempts 1 to k-1 and succeeds on attempt
\* k <= max_retries, no agent is called after the VERIFY of attempt k and
\* the result has success=true, exactly k attempts and final_attempt = k.
C17_SuccessOnAttemptK ==
    \A k \in 1..frame.max_retries :
        ((\A j \in 1..(k - 1) : FailedOn(j)) /\ SucceededOn(k))
            => /\ Len(agent_calls) = 3 * k
               /\ frame.pc \in {"store", "returned"}
               /\ frame.pc = "returned"
                    => /\ frame.result.success
                       /\ Len(frame.result.attempts) = k
                       /\ frame.result.final_attempt = k
                       /\ \A i \in 1..k : frame.result.attempts[i].attempt_number = i
C17_Witness ==
    /\ frame.pc = "returned" /\ frame.result.success
    /\ frame.result.final_attempt = 2 /\ frame.max_retries = 3
    /\ FailedOn(1) /\ SucceededOn(2)

\* C18: never more than max_retries attempts are made; when verification
\* fails on every one of them, exactly max_retries are made and the result
\* has success=false, all the attempts, and the plan, execution and
\* verification of the last one.
C18_AllAttemptsFail ==
    /\ Len(frame.attempts) <= frame.max_retries
    /\ Len(agent_calls) <= 3 * frame.max_retries
    /\ (frame.pc = "returned" /\ \A k \in 1..Len(frame.attempts) : FailedOn(k))
          => /\ Len(frame.attempts) = frame.max_retries
             /\ ~frame.result.success
             /\ frame.result.attempts = frame.attempts
             /\ frame.result.final_attempt = frame.max_retries
             /\ frame.result.plan = CallOf(frame.max_retries, 1).out
             /\ frame.result.execution = CallOf(frame.max_retries, 2).out
             /\ frame.result.verification = Last(frame.attempts).verification
             /\ \A k \in 1..frame.max_retries :
                    /\ frame.attempts[k].attempt_number = k
                    /\ frame.attempts[k].plan = CallOf(k, 1).out
C18_Witness ==
    /\ frame.pc = "returned" /\ ~frame.result.success
    /\ frame.max_retries = 3 /\ Len(frame.result.attempts) = 3
    /\ \A k \in 1..3 : FailedOn(k)

\* the calls made so far are PLAN, EXECUTE, VERIFY of attempt 1, then of
\* attempt 2, and so on, and a PLAN follows a failed VERIFY only
InOrder ==
    \A i \in 1..Len(agent_calls) :
        /\ agent_calls[i].agent = Phases[((i - 1) % 3) + 1]
        /\ agent_calls[i].attempt_num = ((i - 1) \div 3) + 1
        /\ (i > 1 /\ agent_calls[i].agent = "PLAN") => agent_calls[i - 1].out = FALSE
\* an attempt that is recorded holds what the agents handed back
AsHandedBack ==
    \A k \in 1..Len(frame.attempts) :
        /\ Verified(k)
        /\ frame.attempts[k].plan = CallOf(k, 1).out
        /\ frame.attempts[k].execution = CallOf(k, 2).out
        /\ frame.attempts[k].verification.success = CallOf(k, 3).out
\* a step leaves the recorded attempts as they are
AttemptsKept ==
    \A k \in 1..Len(frame.attempts) :
        /\ Len(frame'.attempts) >= k
        /\ frame'.attempts[k] = frame.attempts[k]

\* C19: within an attempt PLAN, EXECUTE and VERIFY run once each and in that
\* order; attempt n+1 starts only after the VERIFY of attempt n failed; an
\* attempt that has been recorded is not modified afterwards.
C19_PhasesInOrder == [](InOrder /\ AsHandedBack) /\ [][AttemptsKept]_vars
C19_Witness ==
    /\ Len(frame.attempts) = 2 /\ Len(agent_calls) = 9
    /\ frame.attempts[1].plan # frame.attempts[2].plan

\* C20: the PLAN of attempt n+1 receives the plan and the failure analysis
\* of attempt n, the one just before it, and the first PLAN receives no
\* previous attempt.
C20_PreviousAttempt ==
    \A i \in 1..Len(agent_calls) :
        LET call == agent_calls[i]
            n == call.attempt_num
        IN  call.agent = "PLAN"
              => IF n = 1
                 THEN /\ call.previous_attempt = NoAttempt
                      /\ call.feedback = Feedback(NoAttempt)
                 ELSE /\ call.previous_attempt = frame.attempts[n - 1]
                      /\ call.feedback.plan = CallOf(n - 1, 1).out
                      /\ call.feedback.failure =
                            frame.attempts[n - 1].verification.failure_analysis
                      /\ call.feedback.failure # NoAnalysis
C20_Witness ==
    /\ Len(agent_calls) >= 7
    /\ agent_calls[7].agent = "PLAN"
    /\ agent_calls[7].previous_attempt.attempt_number = 2
    /\ agent_calls[7].feedback.plan # agent_calls[1].out

(***************************************************************************)
(* The configuration line verified: claims C29 and C30.                    *)
(***************************************************************************)
\* no line of the document starts with the key, blanks aside
KeyOnlyCommented ==
    \A line \in Range(splitlines(line_call.current)) :
        LET r == lstrip(line)
        IN  ~(Len(r) >= Len(line_call.key) /\ SubSeq(r, 1, Len(line_call.key)) = line_call.key)

\* C29: verify_config_line is true on the document set_config_line returned
\* for the same key and value, for every document, key and value; it is
\* false on a document in which the key stands in commented lines only.
C29_VerifiedAfterSet ==
    /\ line_call.phase = "verified" => line_call.verified
    /\ (line_call.phase = "checked" /\ KeyOnlyCommented) => ~line_call.verified

\* C30: the document set_config_line returns has exactly one line that
\* matches the key, for every document it is given.
C30_SingleLine ==
    line_call.phase = "once" =>
        LET lines == splitlines(line_call.first.new)
        IN  Cardinality({i \in 1..Len(lines) : PatMatches(lines[i], line_call.key)}) = 1


(***************************************************************************)
(* C26, C27: what a tool reports when its backend fails, and which target  *)
(* its backend calls act on.                                               *)
(***************************************************************************)
\* the dispatched tool was let through by every gate and called its backend
Permitted == tphase = "done" /\ invoked # <<>> /\ trace # <<>>
\* every backend call of the operation met a non-zero return code or a
\* transport failure
BackendFailed == backend # "up"

\* C26: when a permitted operation meets a non-zero return code or a
\* transport failure, the result of dispatch_tool is a mapping whose ok is
\* false, for every tool of the dispatcher.
C26_FailureReported ==
    (Permitted /\ BackendFailed) => (ret.kind = "returned" /\ ~ret.ok)

\* C27: every backend call of a dispatched tool acts on the target the
\* current executor was constructed for; with an SSH executor no call goes
\* to the container and the container's files stay as they were.
C27_SelectedBackend ==
    tphase = "done" =>
        /\ \A i \in DOMAIN trace : acts_on(trace[i]) = target_type
        /\ target_type = "ssh" => files = SomeFiles


(***************************************************************************)
(* C24: the fan-out over several hosts.                                    *)
(***************************************************************************)
\* the entry the i-th config of the call is owed: the error entry when its
\* execution failed, its own result otherwise
Owed(i) ==
    IF fan.futures[i].how \in Errors
    THEN ErrorEntry(fan.futures[i].how)
    ELSE Completed(fan.configs[i])

\* C24: when execute_multi_host returns, the host of a config whose
\* execution failed has the entry (1, "", message), the host of every
\* other config has that config's own result, and the call raises for no
\* list of configs that names a host.
C24_PerHostEntries ==
    /\ fan.phase = "raised" => fan.configs = <<>>
    /\ fan.phase = "returned" =>
           \A i \in DOMAIN fan.configs :
               /\ fan.configs[i].host \in DOMAIN fan.results
               /\ fan.results[fan.configs[i].host] = Owed(i)


(***************************************************************************)
(* C21, C28: verifier_agent.                                               *)
(***************************************************************************)
VerifierReturned == agent.fn = "verifier" /\ agent.at \in {"returned", "gave up"}
HasTerm(text, keywords) == \E kw \in keywords : Contains(str_lower(text), kw)

\* C21: the verdict says success exactly when the conclusion contains a
\* success term and no failure term; the failure analysis is there exactly
\* when success is false, and it carries the conclusion, the failed steps
\* of the transcript and the verification calls; when the iteration bound
\* is reached success is false and the analysis is there.
C21_Classified ==
    VerifierReturned =>
        /\ agent.at = "returned" =>
              agent.ret.success = (/\ HasTerm(agent.ret.conclusion, success_keywords)
                                   /\ ~HasTerm(agent.ret.conclusion, failure_keywords))
        /\ agent.at = "gave up" => ~agent.ret.success
        /\ agent.ret.failure_analysis.present = ~agent.ret.success
        /\ ~agent.ret.success =>
              agent.ret.failure_analysis =
                  FailureAnalysis(agent.ret.conclusion,
                                  failed_steps_of(agent.execution_transcript),
                                  agent.verification_results)

\* a conclusion with a success term and a failure term was classified, after
\* a verification call
C21_Witness ==
    /\ agent.fn = "verifier" /\ agent.at = "returned"
    /\ HasTerm(agent.ret.conclusion, success_keywords)
    /\ HasTerm(agent.ret.conclusion, failure_keywords)
    /\ agent.ret.failure_analysis.present
    /\ agent.verification_results # <<>>
    /\ agent.ret.failure_analysis.failed_steps # <<>>

\* C28: during a verifier_agent call only the inspection tools offered to
\* the decision-maker are dispatched and the files of the target stay as
\* they were, whatever names the responses carry.
C28_ReadOnly ==
    agent.fn = "verifier" =>
        /\ \A i \in DOMAIN agent.verification_results :
               agent.verification_results[i].check \in verify_tools
        /\ files = SomeFiles


(***************************************************************************)
(* C22, C23, C25: planner_agent and executor_agent.                        *)
(***************************************************************************)
\* C22: when the response is a text while fewer steps are in the transcript
\* than the plan holds, the executor_agent call goes on: the reminder that
\* names the first unexecuted step is the last message and the
\* decision-maker is consulted again.
C22_RemindedNotEnded ==
    (agent.fn = "executor" /\ agent.msg.kind = "text"
        /\ agent.msg.executed < Len(agent.plan)) =>
        /\ agent.at = "consult"
        /\ Last(agent.messages) = Reminder(agent.msg.executed)

\* the response of the planner was a text whose bracketed part json.loads
\* refuses
Unparsable ==
    /\ json_match(agent.content).found
    /\ ~json_loads(SelectSeq(json_match(agent.content).group, LAMBDA x : x # "\n")).ok

\* C23: planner_agent returns a plan that is not empty, of one step when the
\* response was unparsable, and the executor_agent call that receives the
\* plan does not raise.
C23_PlanUsable ==
    /\ (agent.fn = "planner" /\ agent.at = "returned") =>
           /\ agent.plan # <<>>
           /\ Unparsable => Len(agent.plan) = 1
    /\ ~(agent.fn = "executor" /\ agent.at = "raised")

\* the result of the tool call handled last is a refusal of the policy or
\* of the validation, or its arguments were no JSON
Refused ==
    /\ agent.fn = "executor" /\ agent.msg.kind = "tool"
    /\ \/ ~agent.msg.parsable
       \/ agent.msg.result.err \in {"command not allowed by policy", "blocked by policy",
                                    "missing required parameter"}

\* C25: after a tool call that the policy denied, that lacked a parameter or
\* whose arguments were unparsable, the executor_agent call has not ended
\* and has not raised: the result is the last entry of the transcript and
\* the last message, and the decision-maker is consulted next.
C25_RefusalGoesOn ==
    Refused =>
        /\ agent.at = "consult"
        /\ agent.transcript # <<>>
        /\ Last(agent.transcript) =
               StepEntry(agent.msg.name, agent.msg.parsable, agent.msg.result)
        /\ Last(agent.messages) = Message("tool", agent.msg.result.err, 0)
        /\ ~agent.msg.parsable =>
               agent.msg.result = dispatch_tool(World(SomeFiles, <<>>), agent.msg.name,
                                                Mapping(<<>>)).ret

\* an unparsable call was answered and the loop went on to a call that the
\* policy denied
C25_Witness ==
    /\ agent.fn = "executor" /\ agent.at = "consult"
    /\ Len(agent.transcript) = 2
    /\ ~agent.transcript[1].parsable
    /\ agent.transcript[1].err = "missing required parameter"
    /\ agent.transcript[2].err = "command not allowed by policy"
    /\ Refused


(***************************************************************************)
(* C31, C34: dead sessions, and the pool under close_all.                  *)
(***************************************************************************)
\* the steps of a caller that probe a session or count a release
C31_Step ==
    \A t \in Threads :
        LET e == cfg[t] IN
        /\ (pc[t] = "pop" /\ pc'[t] # "pop" /\ pools[e] # <<>>) =>
              LET conn == Last(pools[e]) IN
              /\ conn \notin Range(pools'[e])
              /\ pc'[t] \in {"body", "reuse"}
              /\ pc'[t] = "body" =>
                    transport[conn] = "open" /\ client'[t] = conn
              /\ pc'[t] = "reuse" =>
                    /\ transport'[conn] = "closed"
                    /\ client'[t] = NoSession
                    /\ active_connections' = active_connections
        /\ (pc[t] = "finally" /\ pc'[t] # "finally") =>
              /\ pc'[t] = "decr"
              /\ \/ /\ pools'[e] = Append(pools[e], client[t])
                    /\ transport[client[t]] = "open"
                    /\ transport' = transport
                 \/ /\ pools' = pools
                    /\ transport'[client[t]] = "closed"
        /\ (pc[t] = "decr" /\ pc'[t] # "decr") =>
              active_connections'[e] =
                  IF active_connections[e] >= 1 THEN active_connections[e] - 1 ELSE 0

\* a closed session is in no idle list and in no caller's hands
C31_NoDeadKept ==
    \A s \in Sessions :
        transport[s] = "closed" =>
            /\ \A e \in Endpoints : s \notin Range(pools[e])
            /\ \A t \in Threads : Holds(t) => client[t] # s

\* C31: a session the probe finds dead, when it is popped for reuse or when
\* it is released, is closed, is in no idle list afterwards and is handed to
\* no caller; the release decrements the active count whether the session
\* was alive or dead
C31_DeadDropped == [][C31_Step]_vars /\ []C31_NoDeadKept

\* one caller is counting the release of a session it found dead while
\* another has just dropped a dead session it popped from the idle list
C31_Witness ==
    \E t1, t2 \in Threads :
        /\ pc[t1] = "decr" /\ transport[client[t1]] = "closed"
        /\ pc[t2] = "reuse" /\ client[t2] = NoSession
        /\ \E s \in Sessions : s # client[t1] /\ transport[s] = "closed"


\* the sessions that are open at once; every one of them was created for
\* the endpoint e when e is the only endpoint a call has touched
OpenSessions == {s \in Sessions : transport[s] = "open"}
OnlyEndpoint(e) == keys = <<e>>

\* C34: with close_all running beside the callers, for every endpoint the
\* idle sessions plus the active count stay within
\* max_connections_per_host whenever no call is inside the endpoint's
\* critical section, and no more than max_connections_per_host sessions of
\* an endpoint are open at once
C34_BoundUnderCloseAll ==
    \A e \in Endpoints :
        /\ locks[e] = NoThread =>
              Idle(e) + active_connections[e] <= MaxConnectionsPerHost
        /\ OnlyEndpoint(e) => Card(OpenSessions) <= MaxConnectionsPerHost


(***************************************************************************)
(* C35: one result per endpoint.                                           *)
(***************************************************************************)
\* no endpoint is named twice in the list of configs
PairwiseDistinct(configs) ==
    \A i, j \in DOMAIN configs : i # j => configs[i] # configs[j]

\* C35: when execute_multi_host returns for a list of pairwise distinct
\* endpoints, the result has as many entries as endpoints were passed in,
\* also when two of them share the host name and differ in the port
C35_OneEntryPerEndpoint ==
    (fan.phase = "returned" /\ PairwiseDistinct(fan.configs)) =>
        Cardinality(DOMAIN fan.results) = Len(fan.configs)


(***************************************************************************)
(* C36, C37: the sshd settings the insecure-value gate is there to keep.   *)
(***************************************************************************)
\* the keys the gate of tool_set_config_kv names
Designated == {"PermitRootLogin", "PasswordAuthentication"}
\* a line set_config_line replaces when it is called with a designated key
DesignatedLine(line) == \E k \in Designated : PatMatches(line, <<k>>)
\* a line that switches a designated setting on: sshd reads keywords and
\* the yes/no arguments in any letter case
SwitchesOn(line) ==
    /\ Len(line) = 3
    /\ \E k \in Designated : lower(line[1]) = lower(k)
    /\ line[2] = " "
    /\ lower(line[3]) = "yes"
LinesOf(f) == IF f.exists THEN splitlines(f.text) ELSE <<>>

\* C36, one call: with the flag unset, a set_config_kv call on
\* /etc/ssh/sshd_config replaces no line of a designated key by a line that
\* sets it to yes
C36_Call ==
    (/\ tphase = "ready" /\ tphase' = "done"
     /\ req.op = "set_config_kv" /\ req.path = SshdConfig
     /\ ~allow_insecure) =>
        LET old == LinesOf(files[SshdConfig])
            new == LinesOf(files'[SshdConfig])
        IN  \A i \in DOMAIN old \cap DOMAIN new :
                (DesignatedLine(old[i]) /\ new[i] # old[i]) => ~SwitchesOn(new[i])

\* C36: the insecure-value gate covers every spelling of the key that
\* set_config_line takes for the designated key
C36_EverySpelling == [][C36_Call]_vars


\* the file holds the uncommented line `key yes`
HoldsYes(f, key) == ConfLine(key, "yes") \in Range(LinesOf(f))

\* C37, one operation: with the flag unset, an operation dispatched through
\* dispatch_tool leaves in /etc/ssh/sshd_config no uncommented
\* `PermitRootLogin yes` or `PasswordAuthentication yes` line that the file
\* did not hold before
C37_Call ==
    (/\ tphase = "ready" /\ tphase' = "done"
     /\ req.op = "dispatch_tool"
     /\ ~allow_insecure) =>
        \A k \in Designated :
            HoldsYes(files'[SshdConfig], k) => HoldsYes(files[SshdConfig], k)

\* C37: no dispatched operation gets an insecure sshd line into the file
\* while insecure mode is unset
C37_NoInsecureLine == [][C37_Call]_vars


(***************************************************************************)
(* C38: a verification that ends without a text.                           *)
(***************************************************************************)
\* the final response carried no text: line 422 put the stock conclusion in
\* its place, which no response of the input space spells
EndedWithoutText ==
    /\ agent.fn = "verifier" /\ agent.at = "returned"
    /\ agent.ret.conclusion = VerificationIncomplete

\* C38: a verification whose final response carries no text returns
\* success = false with a failure analysis, as the one that runs into the
\* iteration bound does
C38_NoTextIsFailure ==
    /\ EndedWithoutText =>
          ~agent.ret.success /\ agent.ret.failure_analysis.present
    /\ (agent.fn = "verifier" /\ agent.at = "gave up") =>
          ~agent.ret.success /\ agent.ret.failure_analysis.present


(***************************************************************************)
(* C39: the retry loop for every max_retries.                              *)
(***************************************************************************)
\* the call has ended, by a return or by an exception
LoopEnded == frame.pc \in {"returned", "raised"}

\* C39: the attempts never outnumber max_retries, a result that is returned
\* carries the attempts made, and with max_retries = 0 the call ends by
\* returning a failure with no attempts, not by raising
C39_AnyMaxRetries ==
    /\ Len(frame.attempts) <= frame.max_retries
    /\ frame.pc = "returned" =>
          /\ frame.result.attempts = frame.attempts
          /\ Len(frame.result.attempts) <= frame.max_retries
    /\ (LoopEnded /\ frame.max_retries = 0) =>
          /\ frame.pc = "returned"
          /\ ~frame.result.success
          /\ frame.result.attempts = <<>>


(***************************************************************************)
(* C40: the first content of a file written several times.                 *)
(***************************************************************************)
\* the file the target starts as when it exists before the first call
OriginalFile == CHOOSE f \in TargetFiles : f.exists
OriginalKept(d) == \E t \in Times : d.bak[t] = OriginalFile

\* C40: once the first call has replaced a target that existed, some
\* <path>.bak.<timestamp> holds the content the target had before that call,
\* and some backup holds it after every later call, also one made within
\* the same second
C40_FirstContentKept ==
    /\ [](( Replaced /\ aw.n = 1 /\ aw.before.target = OriginalFile) => OriginalKept(disk))
    /\ [][OriginalKept(disk) => OriginalKept(disk')]_vars


(***************************************************************************)
(* C32: the transcript of executor_agent.                                  *)
(***************************************************************************)
\* what a step of the executor_agent call added to the transcript
Added == SubSeq(agent'.transcript, Len(agent.transcript) + 1, Len(agent'.transcript))

\* one consultation: the transcript keeps what it had; a response with tool
\* calls adds one step entry per call, in the order of the calls; a text
\* adds nothing and the call goes on, or adds the closing note and the call
\* returns
C32_Consultation ==
    (agent.fn = "executor" /\ agent.at = "consult" /\ agent' # agent) =>
        /\ Len(agent'.transcript) >= Len(agent.transcript)
        /\ SubSeq(agent'.transcript, 1, Len(agent.transcript)) = agent.transcript
        /\ agent'.iteration <= agent.iteration + 1
        /\ (agent'.msg.kind = "tool" /\ agent'.at # "raised") =>
              /\ agent'.at = "consult"
              /\ Len(Added) = Len(agent'.msg.asked)
              /\ \A i \in DOMAIN Added :
                    Added[i].kind = "step" /\ Added[i].step = agent'.msg.asked[i]
        /\ agent'.msg.kind = "text" =>
              \/ agent'.at = "consult" /\ Added = <<>>
              \/ agent'.at = "returned" /\ Len(Added) = 1 /\ Added[1].kind = "final"
        /\ agent'.msg.kind = "bound" =>
              agent'.at = "returned" /\ Added = <<>> /\ agent.iteration = agent.max_iters

\* the closing note, if there is one, is the last entry, and the
\* decision-maker is consulted max_iters times at most
C32_Shape ==
    agent.fn = "executor" =>
        /\ \A i \in DOMAIN agent.transcript :
              agent.transcript[i].kind = "final" =>
                  i = Len(agent.transcript) /\ agent.at = "returned"
        /\ agent.iteration <= agent.max_iters

\* C32: the transcript of executor_agent only grows, by one step entry per
\* tool call in the order of the calls; it holds at most one closing note,
\* as its last entry; the call ends after max_iters consultations at most
C32_Transcript == [][C32_Consultation]_vars /\ []C32_Shape

\* a response with three tool calls was followed by the closing note: four
\* entries after two consultations, the note last
C32_Witness ==
    /\ agent.fn = "executor" /\ agent.at = "returned"
    /\ agent.iteration = 2
    /\ Len(agent.transcript) = 4
    /\ \A i \in 1..3 : agent.transcript[i].kind = "step"
    /\ agent.transcript[1].step = "write_file"
    /\ agent.transcript[2].step = "run_safe" /\ agent.transcript[2].ok
    /\ agent.transcript[3].step = "read_file"
    /\ agent.transcript[4].kind = "final"


(***************************************************************************)
(* C33: apply_fixes, once and again.                                       *)
(***************************************************************************)
\* the backend calls an apply_fixes call added to the trace
FixCalls == SubSeq(trace', Len(trace) + 1, Len(trace'))
\* the call wrote: it made the backup, the replacement and the reload
Wrote ==
    /\ \E i \in DOMAIN FixCalls : FixCalls[i].op = "backup"
    /\ \E i \in DOMAIN FixCalls : FixCalls[i].op = "write"
    /\ \E i \in DOMAIN FixCalls : FixCalls[i].op = "reload"
\* the call left the file system alone: it did nothing but read
WroteNothing ==
    /\ \A i \in DOMAIN FixCalls : FixCalls[i].op = "read"
    /\ files' = files
\* the file holds the canonical line of every selected fix
CanonicalLines ==
    \A i \in DOMAIN req.cmd :
        ConfLine(FIXES[req.cmd[i]].key, FIXES[req.cmd[i]].value)
            \in Range(LinesOf(files[SshdConfig]))
\* the text of the file, but for the newline that ends it
Lines(f) == IF f.exists THEN splitlines(universal_newlines(f.text)) ELSE <<>>

\* the write happens exactly when the fixes change the lines of the document
C33_WriteIffChanged ==
    /\ Wrote \/ WroteNothing
    /\ Wrote <=> Lines(files'[SshdConfig]) # Lines(files[SshdConfig])
    /\ Wrote <=> ret'.ok
    /\ ~ret'.ok => ret'.about = <<>>
\* the second call right after the first writes nothing
C33_SecondWritesNothing ==
    tphase = "once" => (WroteNothing /\ ret' = Returned(FALSE, "", <<>>))
\* a file that holds the canonical line of every selected fix is left alone
C33_CanonicalLeftAlone ==
    CanonicalLines => (WroteNothing /\ ret' = Returned(FALSE, "", <<>>))

\* C33 as stated: apply_fixes writes (backup, replacement, reload) exactly when a
\* selected fix changed the document; on a file that holds the canonical
\* line of every selected key it returns (False, "") and leaves the file and
\* its backups alone; a second call with the same ids right after the first
\* writes nothing
C33_AsStated ==
    [][(req.op = "apply_fixes" /\ tphase' # tphase) =>
          (C33_WriteIffChanged /\ C33_CanonicalLeftAlone /\ C33_SecondWritesNothing)]_vars

\* every selected key has its canonical line, and no line of the file is
\* another setting of a selected key: commented, in another letter case or
\* with another value
OnlyCanonicalLines ==
    /\ CanonicalLines
    /\ \A i \in DOMAIN req.cmd : \A l \in Range(Lines(files[SshdConfig])) :
           PatMatches(l, <<FIXES[req.cmd[i]].key>>) =>
               l = ConfLine(FIXES[req.cmd[i]].key, FIXES[req.cmd[i]].value)

\* C33, amended: apply_fixes writes exactly when a selected fix changed the
\* document; it returns (False, "") and leaves the file and its backups alone
\* exactly when every selected key has its canonical line and no other line
\* of the file sets that key; a second call with the same ids right after
\* the first writes nothing
C33_ApplyFixes ==
    [][(req.op = "apply_fixes" /\ tphase' # tphase) =>
          /\ C33_WriteIffChanged
          /\ OnlyCanonicalLines <=> (WroteNothing /\ ret' = Returned(FALSE, "", <<>>))
          /\ C33_SecondWritesNothing]_vars

\* the first call wrote the file that held a second, insecure line beside
\* the canonical one, and the second call did nothing but read
C33_Witness ==
    /\ req.op = "apply_fixes" /\ tphase = "twice"
    /\ ret = Returned(FALSE, "", <<>>)
    /\ Len(trace) = 6
    /\ trace[3].op = "backup" /\ trace[4].op = "write" /\ trace[5].op = "reload"
    /\ trace[6].op = "read"
    /\ LinesOf(files[SshdConfig]) =
           <<ConfLine("PermitRootLogin", "no"), ConfLine("PermitRootLogin", "no")>>

=============================================================================
